---------------------------- MODULE Spec2Model ----------------------------
(***************************************************************************)
(* A model of javadec-rs: the bytecode disassembler (src/src/disassembler.rs),*)
(* the descriptor parser, the control-flow-graph builder and the per-block  *)
(* symbolic executor (src/src/lib.rs).                                      *)
(*                                                                         *)
(* Number representation.  The model's integers are 32-bit signed, so a    *)
(* Rust u32 is carried as the i32 with the same bit pattern (its two's     *)
(* complement representative): `x as i32` and `x as u32` are then the      *)
(* identity on the representative, and the unsigned order is U32Lt.  u8,   *)
(* u16, i8, i16 and positions are carried as their numeric value.          *)
(***************************************************************************)
EXTENDS Integers, Sequences, FiniteSets, TLC

VARIABLES
    codes,          \* disassemble: the Cursor<Vec<u8>>, [buf, position]
    instructions,   \* disassemble: the Vec<(u64, Instruction)> built so far
    dis_status,     \* disassemble: "idle" | "loop" | "Ok" | "Err" | "Panic"
    dis_error,      \* disassemble: the DecompilerError returned (or NoError)
    desc_iter,      \* parse_method: the Peekable<Chars>, [chars, pos]
    desc_params,    \* parse_method: the Vec<FieldType> of parameters read
    desc_return,    \* parse_method: the return FieldType read (or NoType)
    desc_status,    \* parse_method: "idle" | "start" | "params" | "Ok" | "Err" | "Abort"
    desc_error,     \* parse_method: the DescriptorParseError returned (or NoError)
    blocks,         \* gen_control_flow_graph: the HashMap<u64, Block> returned
    cfg_status,     \* gen_control_flow_graph: "idle" | "Ok" | "Panic"
    cfg_panic,      \* gen_control_flow_graph: the place that panicked (or "")
    block,          \* decompile_block: the instructions of the Block given
    constant_pool,  \* decompile_block: the ConstantPool given (index -> entry)
    blk_next,       \* decompile_block: 1-based index of the next instruction
    stack,          \* decompile_block: the Vec<AST> stack, top last
    statements,     \* decompile_block: the Vec<AST> statements
    blk_status,     \* decompile_block: "idle" | "loop" | "Ok" | "Err" | "Panic" | "Abort"
    blk_error,      \* decompile_block: the DecompilerError returned (or NoError)
    mutf8_bytes,    \* mutf8::to_string: the bytes given
    mutf8_iterator, \* mutf8::to_string: the number of bytes the iterator has yielded
    mutf8_s,        \* mutf8::to_string: the String built so far
    mutf8_status,   \* mutf8::to_string: "idle" | "loop" | "Ok" | "Err"
    mutf8_error,    \* mutf8::to_string: the MUtf8Error returned (or NoError)
    cf_build,       \* read_classfile: the build, [target_endian, overflow_checks]
    cf_data,        \* read_classfile: the reader, [buf, position]
    cf_pool,        \* read_constant_pool: the loop, [constant_pool_count, i, constant_pool]
    cf_class,       \* read_classfile: the parts of the ClassFile read so far
    cf_status,      \* read_classfile: the step to take next, or "Ok" | "Err" | "Panic"
    cf_error,       \* read_classfile: the ClassFileError returned (or NoError)
    res_constant_pool, \* ConstantPool accessors: the pool asked
    res_index,      \* ConstantPool accessors: the index asked for
    res_call,       \* ConstantPool accessors: the accessor called ("" before the call)
    res_result,     \* ConstantPool accessors: what the accessor returned
    cpi_overflow_checks, \* read_constant_pool, index only: the build's overflow checks
    cpi_constant_pool_count, \* read_constant_pool, index only: the count read
    cpi_i,          \* read_constant_pool, index only: the u16 i
    cpi_keys,       \* read_constant_pool, index only: [lowest, highest] key inserted
    cpi_watched,    \* read_constant_pool, index only: [key, wide, next] of one key
    cpi_status,     \* read_constant_pool, index only: "idle" | "loop" | "Ok" | "Err" | "Panic"
    fp_blocks,      \* find_paths: the HashMap<u64, Block> given (pc -> branches)
    fp_node,        \* find_paths: the node given
    fp_paths,       \* find_paths: the Vec<Vec<u64>> returned
    fp_status,      \* find_paths: "idle" | "call" | "Ok" | "Panic" | "Deep"
    run_inputs,     \* main: what each INPUT of the command line stands for
    run_val,        \* run: 1-based index of the INPUT the loop is at
    run_entry,      \* run: 1-based index of the archive entry the loop is at (0: none)
    run_method,     \* decompile: 1-based index of the method the loop is at (0: none)
    run_stdout,     \* main: the lines written to standard output
    run_stderr,     \* main: the lines written to standard error
    run_status,     \* main: "idle" | "run" | "exit"
    run_exit        \* main: the exit status of the process (-1 while it runs)

dis_vars == <<codes, instructions, dis_status, dis_error>>
desc_vars == <<desc_iter, desc_params, desc_return, desc_status, desc_error>>
cfg_vars == <<blocks, cfg_status, cfg_panic>>
blk_vars == <<block, constant_pool, blk_next, stack, statements, blk_status, blk_error>>
mutf8_vars == <<mutf8_bytes, mutf8_iterator, mutf8_s, mutf8_status, mutf8_error>>
cf_vars == <<cf_build, cf_data, cf_pool, cf_class, cf_status, cf_error>>
res_vars == <<res_constant_pool, res_index, res_call, res_result>>
cpi_vars ==
    <<cpi_overflow_checks, cpi_constant_pool_count, cpi_i, cpi_keys, cpi_watched, cpi_status>>
fp_vars == <<fp_blocks, fp_node, fp_paths, fp_status>>
run_vars ==
    <<run_inputs, run_val, run_entry, run_method, run_stdout, run_stderr, run_status, run_exit>>
vars ==
    <<dis_vars, desc_vars, cfg_vars, blk_vars, mutf8_vars, cf_vars, res_vars, cpi_vars,
      fp_vars, run_vars>>

\* what each part of the program leaves alone
DisOthers ==
    <<desc_vars, cfg_vars, blk_vars, mutf8_vars, cf_vars, res_vars, cpi_vars,
      fp_vars, run_vars>>
DescOthers ==
    <<dis_vars, cfg_vars, blk_vars, mutf8_vars, cf_vars, res_vars, cpi_vars,
      fp_vars, run_vars>>
CfgOthers ==
    <<dis_vars, desc_vars, blk_vars, mutf8_vars, cf_vars, res_vars, cpi_vars,
      fp_vars, run_vars>>
BlkOthers ==
    <<dis_vars, desc_vars, cfg_vars, mutf8_vars, cf_vars, res_vars, cpi_vars,
      fp_vars, run_vars>>
Mutf8Others ==
    <<dis_vars, desc_vars, cfg_vars, blk_vars, cf_vars, res_vars, cpi_vars,
      fp_vars, run_vars>>
CfOthers ==
    <<dis_vars, desc_vars, cfg_vars, blk_vars, mutf8_vars, res_vars, cpi_vars,
      fp_vars, run_vars>>
ResOthers ==
    <<dis_vars, desc_vars, cfg_vars, blk_vars, mutf8_vars, cf_vars, cpi_vars,
      fp_vars, run_vars>>
CpiOthers ==
    <<dis_vars, desc_vars, cfg_vars, blk_vars, mutf8_vars, cf_vars, res_vars,
      fp_vars, run_vars>>
FpOthers ==
    <<dis_vars, desc_vars, cfg_vars, blk_vars, mutf8_vars, cf_vars, res_vars,
      cpi_vars, run_vars>>
RunOthers ==
    <<dis_vars, desc_vars, cfg_vars, blk_vars, mutf8_vars, cf_vars, res_vars,
      cpi_vars, fp_vars>>

NoError == [kind |-> "None"]

\* ------------------------------------------------------------------------
\* Integer helpers (casts of disassembler.rs)
\* ------------------------------------------------------------------------

I32Max == 2147483647
I32Min == (-2147483647) - 1

\* `x as i8` for a u8 x
AsI8(x) == IF x >= 128 THEN x - 256 ELSE x

\* `x as i16` for a u16 x
AsI16(x) == IF x >= 32768 THEN x - 65536 ELSE x

\* `x as u16` for an i32 x: the low 16 bits
AsU16(x) == x % 65536

\* unsigned order of two u32 given by their i32 representatives
U32Lt(a, b) ==
    \/ a >= 0 /\ b >= 0 /\ a < b
    \/ a < 0 /\ b < 0 /\ a < b
    \/ a >= 0 /\ b < 0

\* the u32 after a (never called on u32::MAX, whose representative is -1)
U32Succ(a) == IF a = I32Max THEN I32Min ELSE a + 1

\* `pos + off` on i32.  With overflow checks (debug profile) an overflowing
\* add panics; without them (release profile) it wraps around.
AddI32Wrap(pos, off) ==
    IF pos >= 0 /\ off > I32Max - pos
    THEN [panic |-> TRUE, val |-> ((off - I32Max) + (pos - I32Max)) - 2]
    ELSE [panic |-> FALSE, val |-> pos + off]

AddI32(pos, off, overflow_checks) ==
    LET s == AddI32Wrap(pos, off)
    IN  [panic |-> s.panic /\ overflow_checks, val |-> s.val]

\* ------------------------------------------------------------------------
\* Byte readers over the cursor (disassembler.rs 10-37)
\* ------------------------------------------------------------------------

Remaining(data) == Len(data.buf) - data.position

ByteAt(data, k) == data.buf[data.position + k + 1]

Advance(data, n) == [data EXCEPT !.position = @ + n]

EndOfCode == [kind |-> "EndOfCode"]

RErr(e) == [status |-> "Err", err |-> e]
RPanic == [status |-> "Panic", err |-> [kind |-> "panic"]]
ROk(v, data) == [status |-> "Ok", val |-> v, data |-> data]

read_u8(data) ==
    IF Remaining(data) < 1
    THEN RErr(EndOfCode)
    ELSE ROk(ByteAt(data, 0), Advance(data, 1))

read_u16(data) ==
    IF Remaining(data) < 2
    THEN RErr(EndOfCode)
    ELSE ROk(ByteAt(data, 0) * 256 + ByteAt(data, 1), Advance(data, 2))

read_u32(data) ==
    IF Remaining(data) < 4
    THEN RErr(EndOfCode)
    ELSE ROk(AsI8(ByteAt(data, 0)) * 16777216 + ByteAt(data, 1) * 65536
                 + ByteAt(data, 2) * 256 + ByteAt(data, 3),
             Advance(data, 4))

\* ------------------------------------------------------------------------
\* read_instruction (disassembler.rs 316-733)
\* ------------------------------------------------------------------------

\* The Instruction variant each opcode byte 0x00..0xC9 decodes to
\* (0xC4, the wide prefix, has none of its own).
OpName ==
    << "Nop", "AConstNull", "IConst", "IConst", "IConst", "IConst", "IConst", "IConst",
       "IConst", "LConst", "LConst", "FConst", "FConst", "FConst", "DConst", "DConst",
       "BIPush", "SIPush", "LoadConst", "LoadConst", "LoadConst", "ILoad", "LLoad", "FLoad",
       "DLoad", "ALoad", "ILoad", "ILoad", "ILoad", "ILoad", "LLoad", "LLoad",
       "LLoad", "LLoad", "FLoad", "FLoad", "FLoad", "FLoad", "DLoad", "DLoad",
       "DLoad", "DLoad", "ALoad", "ALoad", "ALoad", "ALoad", "IALoad", "LALoad",
       "FALoad", "DALoad", "AALoad", "BALoad", "CALoad", "SALoad", "IStore", "LStore",
       "FStore", "DStore", "AStore", "IStore", "IStore", "IStore", "IStore", "LStore",
       "LStore", "LStore", "LStore", "FStore", "FStore", "FStore", "FStore", "DStore",
       "DStore", "DStore", "DStore", "AStore", "AStore", "AStore", "AStore", "IAStore",
       "LAStore", "FAStore", "DAStore", "AAStore", "BAStore", "CAStore", "SAStore", "Pop",
       "Pop2", "Dup", "DupX1", "DupX2", "Dup2", "Dup2X1", "Dup2X2", "Swap",
       "IAdd", "LAdd", "FAdd", "DAdd", "ISub", "LSub", "FSub", "DSub",
       "IMul", "LMul", "FMul", "DMul", "IDiv", "LDiv", "FDiv", "DDiv",
       "IRem", "LRem", "FRem", "DRem", "INeg", "LNeg", "FNeg", "DNeg",
       "IShL", "LShL", "IShR", "LShR", "IUShR", "LUShR", "IAnd", "LAnd",
       "IOr", "LOr", "IXOr", "LXOr", "IInc", "I2l", "I2f", "I2d",
       "L2i", "L2f", "L2d", "F2i", "F2l", "F2d", "D2i", "D2l",
       "D2f", "I2b", "I2c", "I2s", "LCmp", "FCmpL", "FCmpG", "DCmpL",
       "DCmpG", "IfEq", "IfNe", "IfLt", "IfGe", "IfGt", "IfLe", "IfICmpEq",
       "IfICmpNe", "IfICmpLt", "IfICmpGe", "IfICmpGt", "IfICmpLe", "IfACmpEq", "IfACmpNe", "Goto",
       "JSr", "Ret", "TableSwitch", "LookupSwitch", "IReturn", "LReturn", "FReturn", "DReturn",
       "AReturn", "Return", "GetStatic", "PutStatic", "GetField", "PutField", "InvokeVirtual", "InvokeSpecial",
       "InvokeStatic", "InvokeInterface", "InvokeDynamic", "New", "NewArray", "ANewArray", "ArrayLength", "AThrow",
       "CheckCast", "InstanceOf", "MonitorEnter", "MonitorExit", "Wide", "MultiANewArray", "IfNull", "IfNonNull",
       "Goto", "JSr" >>

Name(code) == OpName[code + 1]

\* opcodes decoded with no operand bytes
NoOperandOpcodes ==
    {0, 1} \cup (46 .. 53) \cup (79 .. 131) \cup (133 .. 152) \cup (172 .. 177)
        \cup {190, 191, 194, 195}

\* iload..aload, istore..astore with an explicit index (0x15-0x19, 0x36-0x3a) and ret (0xa9)
LocalIndexOpcodes == (21 .. 25) \cup (54 .. 58) \cup {169}

\* iload_0..aload_3 (0x1a-0x2d) and istore_0..astore_3 (0x3b-0x4e)
LocalShortOpcodes == (26 .. 45) \cup (59 .. 78)

\* if*, if_icmp*, if_acmp*, goto, jsr (0x99-0xa8), ifnull, ifnonnull (0xc6, 0xc7)
Branch16Opcodes == (153 .. 168) \cup {198, 199}

\* opcodes whose only operand is a u16 pool index
Index16Opcodes == {19, 20} \cup (178 .. 184) \cup {187, 189, 192, 193}

\* the value of iconst_m1..dconst_1 (0x02-0x0f); the float constants 0.0,
\* 1.0 and 2.0 are carried as 0, 1 and 2
ConstValue(code) ==
    IF code <= 8 THEN code - 3
    ELSE IF code <= 10 THEN code - 9
    ELSE IF code <= 13 THEN code - 11
    ELSE code - 14

\* the literal index of iload_0..astore_3
ShortIndex(code) == IF code <= 45 THEN (code - 26) % 4 ELSE (code - 59) % 4

\* mutant: the wide flag is ignored and one index byte is read
read_index_narrow(data, wide) == read_u8(data)

\* `if wide { read_u16(data)? } else { read_u8(data)? as u16 }`
read_index(data, wide) == IF wide THEN read_u16(data) ELSE read_u8(data)

\* mutant: the offset is taken from the end of the instruction
BranchTarget16_FromNext(pos, raw) == AsU16(pos + 3 + AsI16(raw))

\* `(pos + ((read_u16(data)? as i16) as i32)) as u16`
BranchTarget16(pos, raw) == AsU16(pos + AsI16(raw))

\* mutant: an aligned cursor is padded by four bytes
SwitchPad_Four(position) == 4 - (position % 4)

\* `(1 + ((data.position() - 1) / 4)) * 4 - data.position()`
SwitchPad(position) == (1 + ((position - 1) \div 4)) * 4 - position

\* skip n bytes with read_u8
RECURSIVE skip_bytes(_, _)
skip_bytes(data, n) ==
    IF n = 0 THEN ROk(0, data)
    ELSE LET r == read_u8(data)
         IN  IF r.status # "Ok" THEN r ELSE skip_bytes(r.data, n - 1)

\* `(pos + (read_u32(data)? as i32)) as u32`
read_target32(data, pos, overflow_checks) ==
    LET r == read_u32(data)
    IN  IF r.status # "Ok" THEN r
        ELSE LET s == AddI32(pos, r.val, overflow_checks)
             IN  IF s.panic THEN RPanic ELSE ROk(s.val, r.data)

\* `for _ in low..=high { offsets.push(...) }`, low and high being u32
RECURSIVE read_offsets(_, _, _, _, _, _)
read_offsets(data, pos, cur, high, offsets, overflow_checks) ==
    IF U32Lt(high, cur) THEN ROk(offsets, data)
    ELSE LET r == read_target32(data, pos, overflow_checks)
         IN  IF r.status # "Ok" THEN r
             ELSE IF cur = high THEN ROk(Append(offsets, r.val), r.data)
             ELSE read_offsets(r.data, pos, U32Succ(cur), high,
                               Append(offsets, r.val), overflow_checks)

\* `for _ in 0..count { pairs.push((match, target)) }`, count being u32
RECURSIVE read_pairs(_, _, _, _, _, _)
read_pairs(data, pos, i, count, pairs, overflow_checks) ==
    IF ~U32Lt(i, count) THEN ROk(pairs, data)
    ELSE LET m == read_u32(data)
         IN  IF m.status # "Ok" THEN m
             ELSE LET t == read_target32(m.data, pos, overflow_checks)
                  IN  IF t.status # "Ok" THEN t
                      ELSE read_pairs(t.data, pos, U32Succ(i), count,
                                      Append(pairs, <<m.val, t.val>>), overflow_checks)

\* 0xaa
read_tableswitch(data, pos, overflow_checks) ==
    LET p == skip_bytes(data, SwitchPad(data.position))
    IN  IF p.status # "Ok" THEN p
        ELSE LET d == read_target32(p.data, pos, overflow_checks)
             IN  IF d.status # "Ok" THEN d
                 ELSE LET low == read_u32(d.data)
                      IN  IF low.status # "Ok" THEN low
                          ELSE LET high == read_u32(low.data)
                               IN  IF high.status # "Ok" THEN high
                                   ELSE LET o == read_offsets(high.data, pos, low.val,
                                                              high.val, <<>>, overflow_checks)
                                        IN  IF o.status # "Ok" THEN o
                                            ELSE ROk([op |-> "TableSwitch",
                                                      default |-> d.val,
                                                      low |-> low.val,
                                                      high |-> high.val,
                                                      offsets |-> o.val], o.data)

\* 0xab
read_lookupswitch(data, pos, overflow_checks) ==
    LET p == skip_bytes(data, SwitchPad(data.position))
    IN  IF p.status # "Ok" THEN p
        ELSE LET d == read_target32(p.data, pos, overflow_checks)
             IN  IF d.status # "Ok" THEN d
                 ELSE LET count == read_u32(d.data)
                      IN  IF count.status # "Ok" THEN count
                          ELSE LET o == read_pairs(count.data, pos, 0, count.val,
                                                   <<>>, overflow_checks)
                               IN  IF o.status # "Ok" THEN o
                                   ELSE ROk([op |-> "LookupSwitch",
                                             default |-> d.val,
                                             pairs |-> o.val], o.data)

\* 0x84
read_iinc(data, wide) ==
    LET i == read_index(data, wide)
    IN  IF i.status # "Ok" THEN i
        ELSE LET v == IF wide THEN read_u16(i.data) ELSE read_u8(i.data)
             IN  IF v.status # "Ok" THEN v
                 ELSE ROk([op |-> "IInc", index |-> i.val,
                           value |-> IF wide THEN AsI16(v.val) ELSE AsI8(v.val)],
                          v.data)

\* 0xbc
ArrayTypeName(type_id) ==
    <<"Boolean", "Char", "Float", "Double", "Byte", "Short", "Int", "Long">>[type_id - 3]

read_newarray(data) ==
    LET t == read_u8(data)
    IN  IF t.status # "Ok" THEN t
        ELSE IF t.val \notin 4 .. 11
             THEN RErr([kind |-> "UnknownArrayType", type_id |-> t.val])
             ELSE ROk([op |-> "NewArray", array_type |-> ArrayTypeName(t.val)], t.data)

\* an instruction whose only field is `index`, read by r
WithIndex(code, r) ==
    IF r.status # "Ok" THEN r ELSE ROk([op |-> Name(code), index |-> r.val], r.data)

\* an instruction whose only field is `value`, read by r and cast by cast
WithValue(code, r, v) ==
    IF r.status # "Ok" THEN r ELSE ROk([op |-> Name(code), value |-> v], r.data)

\* the instruction a decoded opcode byte stands for, the cursor being just
\* after that byte (every arm of the match but 0xc4)
decode_operands(code, data, pos, wide, overflow_checks) ==
    IF code \in NoOperandOpcodes THEN ROk([op |-> Name(code)], data)
    ELSE IF code \in 2 .. 15
        THEN ROk([op |-> Name(code), value |-> ConstValue(code)], data)
    ELSE IF code = 16
        THEN LET r == read_u8(data)
             IN  WithValue(code, r, IF r.status = "Ok" THEN AsI8(r.val) ELSE 0)
    ELSE IF code = 17
        THEN LET r == read_u16(data)
             IN  WithValue(code, r, IF r.status = "Ok" THEN AsI16(r.val) ELSE 0)
    ELSE IF code = 18 THEN WithIndex(code, read_u8(data))
    ELSE IF code \in Index16Opcodes THEN WithIndex(code, read_u16(data))
    ELSE IF code \in LocalIndexOpcodes THEN WithIndex(code, read_index(data, wide))
    ELSE IF code \in LocalShortOpcodes
        THEN ROk([op |-> Name(code), index |-> ShortIndex(code)], data)
    ELSE IF code = 132 THEN read_iinc(data, wide)
    ELSE IF code \in Branch16Opcodes
        THEN LET r == read_u16(data)
             IN  IF r.status # "Ok" THEN r
                 ELSE ROk([op |-> Name(code),
                           branch |-> BranchTarget16(pos, r.val)], r.data)
    ELSE IF code = 170 THEN read_tableswitch(data, pos, overflow_checks)
    ELSE IF code = 171 THEN read_lookupswitch(data, pos, overflow_checks)
    ELSE IF code \in {185, 186}
        THEN LET i == read_u16(data)
             IN  IF i.status # "Ok" THEN i
                 ELSE LET z == read_u16(i.data)
                      IN  IF z.status # "Ok" THEN z
                          ELSE ROk([op |-> Name(code), index |-> i.val], z.data)
    ELSE IF code = 188 THEN read_newarray(data)
    ELSE IF code = 197
        THEN LET i == read_u16(data)
             IN  IF i.status # "Ok" THEN i
                 ELSE LET d == read_u8(i.data)
                      IN  IF d.status # "Ok" THEN d
                          ELSE ROk([op |-> "MultiANewArray", index |-> i.val,
                                    dimensions |-> d.val], d.data)
    ELSE IF code \in {200, 201}
        THEN LET r == read_u32(data)
             IN  IF r.status # "Ok" THEN r
                 ELSE LET s == AddI32(pos, r.val, overflow_checks)
                      IN  IF s.panic THEN RPanic
                          ELSE ROk([op |-> Name(code), branch |-> AsU16(s.val)], r.data)
    ELSE RErr([kind |-> "UnknownInstr", instruction |-> code])

RECURSIVE read_instruction(_, _, _, _)
read_instruction(data, pos, wide, overflow_checks) ==
    LET c == read_u8(data)
    IN  IF c.status # "Ok" THEN c
        ELSE IF c.val = 196 THEN read_instruction(c.data, pos, TRUE, overflow_checks)
        ELSE decode_operands(c.val, c.data, pos, wide, overflow_checks)

\* ------------------------------------------------------------------------
\* disassemble (disassembler.rs 735-749)
\* ------------------------------------------------------------------------

\* mutant: the loop is left one byte early
LoopDone_Early(position, length) == position + 1 >= length

\* `if codes.position() == length { break; }`
LoopDone(position, length) == position = length

\* One iteration of the loop of disassemble: read one instruction at the
\* cursor, push it with its pc, and leave the loop when the cursor is at the
\* end.  An error of read_instruction is returned at once; an arithmetic
\* overflow panics in a build with overflow checks and wraps in one without.
DisassembleStep ==
    /\ dis_status = "loop"
    /\ \E overflow_checks \in BOOLEAN :
         LET pos == codes.position
             r == read_instruction(codes, pos, FALSE, overflow_checks)
         IN  IF r.status = "Ok"
             THEN /\ instructions' = Append(instructions, [pos |-> pos, instr |-> r.val])
                  /\ codes' = r.data
                  /\ dis_status' = IF LoopDone(r.data.position, Len(codes.buf))
                                   THEN "Ok" ELSE "loop"
                  /\ dis_error' = dis_error
             ELSE /\ dis_status' = r.status
                  /\ dis_error' = r.err
                  /\ UNCHANGED <<codes, instructions>>
    /\ UNCHANGED DisOthers

\* ------------------------------------------------------------------------
\* Code arrays given to disassemble
\* ------------------------------------------------------------------------

MaxPrefix == 5      \* most nop bytes put before the instruction under study
MaxOffsets == 2     \* most case words put after the header of a switch
MaxFill == 4        \* most operand bytes put after a lone opcode byte

RECURSIVE Nops(_)
Nops(k) == IF k = 0 THEN <<>> ELSE <<0>> \o Nops(k - 1)

\* all sequences of exactly n elements of S
SeqsOfLen(S, n) == [1 .. n -> S]

SeqsUpTo(S, n) == UNION {SeqsOfLen(S, k) : k \in 0 .. n}

RECURSIVE Flatten(_)
Flatten(ss) == IF ss = <<>> THEN <<>> ELSE Head(ss) \o Flatten(Tail(ss))

\* every opcode byte (defined or not), followed by 0..MaxFill bytes
SweepCodes ==
    {<<b>> \o SubSeq(<<1, 2, 177, 4, 5>>, 1, n) : b \in 0 .. 255, n \in 0 .. MaxFill}

\* a two-byte-offset branch at pc 0..MaxPrefix, alone or followed by return
BranchHi == {0, 127, 128, 255}
BranchLo == {0, 10, 251, 255}
BranchCodes ==
    {Nops(k) \o <<op, hi, lo>> \o t :
        k \in 0 .. MaxPrefix, op \in Branch16Opcodes,
        hi \in BranchHi, lo \in BranchLo, t \in {<<>>, <<177>>}}

\* local-variable opcodes, iinc and nop, bare and behind one or two wide
\* prefixes, with up to all of their operand bytes, alone or followed by a
\* bare iload or a bare iinc
WideOperandBytes == {0, 7, 128, 255}
WideCodes ==
    {w \o <<op>> \o o \o t :
        w \in {<<>>, <<196>>, <<196, 196>>},
        op \in LocalIndexOpcodes \cup {0},
        o \in SeqsUpTo(WideOperandBytes, 2),
        t \in {<<>>, <<21, 7>>, <<132, 7, 255>>}}
    \cup
    {w \o <<132>> \o o \o t :
        w \in {<<>>, <<196>>, <<196, 196>>},
        o \in SeqsUpTo(WideOperandBytes, 4),
        t \in {<<>>, <<21, 7>>, <<132, 7, 255>>}}

\* 32-bit words: 0, 1, 4, 16, -1, i32::MAX, i32::MIN
W0 == <<0, 0, 0, 0>>
W1 == <<0, 0, 0, 1>>
W4 == <<0, 0, 0, 4>>
W16 == <<0, 0, 0, 16>>
WM1 == <<255, 255, 255, 255>>
WMax == <<127, 255, 255, 255>>
WMin == <<128, 0, 0, 0>>

\* a switch at pc 0..MaxPrefix, bare or behind a wide prefix, with the
\* padding its position asks for or with none
SwitchHeads ==
    {Nops(k) \o w \o <<op>> \o Nops(j) :
        k \in 0 .. MaxPrefix, w \in {<<>>, <<196>>}, op \in {170, 171},
        j \in 0 .. 3}

AlignedHeads == {h \in SwitchHeads : Len(h) % 4 = 0 \/ h[Len(h)] \in {170, 171}}

TableSwitchCodes ==
    {h \o d \o low \o high \o Flatten(o) :
        h \in {x \in AlignedHeads : 170 \in {x[i] : i \in 1 .. Len(x)}},
        d \in {W16, WM1, WMax},
        low \in {W0, W1, WM1}, high \in {W0, W1, WM1},
        o \in SeqsUpTo({W4, WM1}, MaxOffsets)}

LookupSwitchCodes ==
    {h \o d \o n \o Flatten(o) :
        h \in {x \in AlignedHeads : 171 \in {x[i] : i \in 1 .. Len(x)}},
        d \in {W16, WM1, WMin},
        n \in {W0, W1, WM1},
        o \in SeqsUpTo({W4, WM1}, MaxOffsets)}

CodeArrays ==
    SweepCodes \cup BranchCodes \cup WideCodes \cup TableSwitchCodes
        \cup LookupSwitchCodes

\* ------------------------------------------------------------------------
\* Properties of the disassembler
\* ------------------------------------------------------------------------

buf == codes.buf

\* byte at 0-based position k of the code array (-1 past its end)
Byte(k) == IF k < Len(buf) THEN buf[k + 1] ELSE -1

\* number of wide prefixes (0xc4) from position k on
RECURSIVE WideCount(_)
WideCount(k) == IF k < Len(buf) /\ Byte(k) = 196 THEN 1 + WideCount(k + 1) ELSE 0

\* position of the opcode byte of the instruction at pc p
OpcodePos(p) == p + WideCount(p)

SignExt8(v) == IF v >= 128 THEN v - 256 ELSE v
SignExt16(v) == IF v >= 32768 THEN v - 65536 ELSE v

\* the big-endian signed 32-bit word at position k
SignedWord(k) ==
    SignExt8(Byte(k)) * 16777216 + Byte(k + 1) * 65536 + Byte(k + 2) * 256 + Byte(k + 3)

\* operand bytes of the class-file format after the opcode byte `code`,
\* switches apart
FormatOperandBytes(code, wide) ==
    IF code \in LocalIndexOpcodes THEN (IF wide THEN 2 ELSE 1)
    ELSE IF code = 132 THEN (IF wide THEN 4 ELSE 2)
    ELSE IF code \in {16, 18, 188} THEN 1
    ELSE IF code \in {17} \cup Index16Opcodes \cup Branch16Opcodes THEN 2
    ELSE IF code = 197 THEN 3
    ELSE IF code \in {185, 186, 200, 201} THEN 4
    ELSE 0

\* bytes the instruction `instr` decoded at pc p occupies: its wide prefixes,
\* its opcode byte and its operands; for a switch the padding up to the next
\* multiple of 4, the header words and the entries stored
Occupied(p, instr) ==
    LET q == OpcodePos(p)
        code == Byte(q)
    IN  (q - p) + 1 +
        (IF code = 170 THEN (3 - (q % 4)) + 12 + 4 * Len(instr.offsets)
         ELSE IF code = 171 THEN (3 - (q % 4)) + 8 + 8 * Len(instr.pairs)
         ELSE FormatOperandBytes(code, q > p))

Pc(i) == instructions[i].pos
Instr(i) == instructions[i].instr

\* C1: while disassemble runs and when it returns Ok, the output list starts
\* at pc 0, its pcs are strictly increasing, each pc is the previous pc plus
\* the bytes the previous instruction occupies, the cursor stands at the end
\* of the last instruction, and on Ok that end is the code-array length.
C1_FullCoverage ==
    dis_status \in {"loop", "Ok"} =>
        /\ instructions # <<>> => Pc(1) = 0
        /\ \A i \in 1 .. Len(instructions) - 1 :
             /\ Pc(i) < Pc(i + 1)
             /\ Pc(i + 1) = Pc(i) + Occupied(Pc(i), Instr(i))
        /\ instructions # <<>> =>
             codes.position = Pc(Len(instructions))
                                + Occupied(Pc(Len(instructions)), Instr(Len(instructions)))
        /\ dis_status = "Ok" => instructions # <<>> /\ codes.position = Len(buf)

\* C1 witness: disassemble returned Ok on a code array holding a padded
\* tableswitch with two case offsets at pc 5
C1_Witness ==
    /\ dis_status = "Ok"
    /\ \E i \in 1 .. Len(instructions) :
         /\ Pc(i) = 5
         /\ Instr(i).op = "TableSwitch"
         /\ Len(Instr(i).offsets) = 2

\* C2: a branch opcode with a 2-byte offset at pc p with operand bytes hi, lo
\* decodes to its variant with branch = p + signext16((hi << 8) | lo)
\* whenever that sum lies in 0..65535.
C2_BranchTarget ==
    \A i \in 1 .. Len(instructions) :
        LET p == Pc(i)
        IN  Byte(p) \in Branch16Opcodes =>
              LET target == p + SignExt16(Byte(p + 1) * 256 + Byte(p + 2))
              IN  target \in 0 .. 65535 =>
                    Instr(i) = [op |-> Name(Byte(p)), branch |-> target]

\* C2 witness: ifeq at pc 5 with operand FF FB decoded to branch 0, and
\* (C2_WitnessForward) with operand 00 0A to branch 15
C2_Witness ==
    \E i \in 1 .. Len(instructions) :
        /\ Pc(i) = 5 /\ Byte(5) = 153 /\ Byte(6) = 255 /\ Byte(7) = 251
        /\ Instr(i) = [op |-> "IfEq", branch |-> 0]

C2_WitnessForward ==
    \E i \in 1 .. Len(instructions) :
        /\ Pc(i) = 5 /\ Byte(5) = 153 /\ Byte(6) = 0 /\ Byte(7) = 10
        /\ Instr(i) = [op |-> "IfEq", branch |-> 15]

\* the u32 with representative s is the number n
U32Is(s, n) == s >= 0 /\ s = n

\* the sum p + off is a number in 0 .. 2^31 - 1
InI32Range(p, off) == off <= I32Max - p /\ p + off >= 0

\* position of the default word of the switch whose opcode byte is at q
DefaultPos(q) == q + 1 + (3 - (q % 4))

C4_WidePrefix ==
    \A i \in 1 .. Len(instructions) :
        LET p == Pc(i)
            q == OpcodePos(p)
            x == Instr(i)
        IN  /\ Byte(q) \in LocalIndexOpcodes =>
                x = [op |-> Name(Byte(q)),
                     index |-> IF q > p THEN Byte(q + 1) * 256 + Byte(q + 2)
                               ELSE Byte(q + 1)]
            /\ Byte(q) = 132 =>
                x = [op |-> "IInc",
                     index |-> IF q > p THEN Byte(q + 1) * 256 + Byte(q + 2)
                               ELSE Byte(q + 1),
                     value |-> IF q > p THEN SignExt16(Byte(q + 3) * 256 + Byte(q + 4))
                               ELSE SignExt8(Byte(q + 2))]

\* C4 witness: wide iload 0x0007 followed by a bare iload 7 decode to the
\* same ILoad{7}, the second one at pc 4
C4_Witness ==
    /\ Len(instructions) = 2
    /\ Byte(0) = 196 /\ Byte(1) = 21
    /\ Instr(1) = [op |-> "ILoad", index |-> 7]
    /\ Pc(2) = 4 /\ Byte(4) = 21
    /\ Instr(2) = Instr(1)

\* ------------------------------------------------------------------------
\* descriptors (lib.rs 11-152)
\* ------------------------------------------------------------------------

NoType == [t |-> "None"]

EOF == [kind |-> "EOF"]
Expect(expected, got) == [kind |-> "Expect", expected |-> expected, got |-> got]

\* depth of nested calls at which the native stack is exhausted
MaxRecursion == 3

\* `iter.peek()`: the next char, if any
HasNext(iter) == iter.pos < Len(iter.chars)
NextChar(iter) == iter.chars[iter.pos + 1]

\* peek (lib.rs 61-65)
peek(iter) == IF HasNext(iter) THEN ROk(NextChar(iter), iter) ELSE RErr(EOF)

\* consume (lib.rs 67-72)
consume(iter) ==
    IF HasNext(iter) THEN ROk(TRUE, [iter EXCEPT !.pos = @ + 1]) ELSE RErr(EOF)

\* expect (lib.rs 38-51)
expect(iter, expected) ==
    LET ch == peek(iter)
    IN  IF ch.status # "Ok" THEN ch
        ELSE IF ch.val # expected THEN RErr(Expect(expected, ch.val))
        ELSE ROk(TRUE, iter)

\* accept (lib.rs 53-59)
accept(iter, expected) ==
    LET next_ch == peek(iter)
    IN  IF next_ch.status # "Ok" THEN next_ch
        ELSE ROk(next_ch.val = expected, iter)

PrimitiveType(ch) ==
    CASE ch = "B" -> "Byte" [] ch = "C" -> "Char" [] ch = "S" -> "Short"
      [] ch = "Z" -> "Boolean" [] ch = "J" -> "Long" [] ch = "I" -> "Int"
      [] ch = "D" -> "Double" [] ch = "F" -> "Float"

PrimitiveChars == {"B", "C", "S", "Z", "J", "I", "D", "F"}

\* `while peek(iter)? != ';' { name.push(peek(iter)?); consume(iter)?; }`
RECURSIVE read_name(_, _)
read_name(iter, name) ==
    LET ch == peek(iter)
    IN  IF ch.status # "Ok" THEN ch
        ELSE IF ch.val = ";" THEN ROk(name, iter)
        ELSE read_name(consume(iter).data, Append(name, ch.val))

RAbort == [status |-> "Abort", err |-> [kind |-> "stack overflow"]]

\* the '[' arm: `FieldType::Array { inner: Box::new(parse_field_type(iter)?) }`,
\* given the result r of the nested call
ArrayArm(iter, r) ==
    IF r.status # "Ok" THEN r ELSE ROk([t |-> "Array", inner |-> r.val], r.data)

\* parse_field_type (lib.rs 89-123); depth counts the nested calls, and the
\* call that would exceed MaxRecursion overflows the stack, which aborts
RECURSIVE parse_field_type(_, _)
parse_field_type(iter, depth) ==
    IF depth > MaxRecursion THEN RAbort
    ELSE
    LET ch == peek(iter)
    IN  IF ch.status # "Ok" THEN ch
        ELSE LET field_type ==
                   IF ch.val \in PrimitiveChars
                       THEN ROk([t |-> PrimitiveType(ch.val)], iter)
                   ELSE IF ch.val = "L"
                       THEN LET n == read_name(consume(iter).data, <<>>)
                            IN  IF n.status # "Ok" THEN n
                                ELSE ROk([t |-> "Reference", name |-> n.val], n.data)
                   ELSE IF ch.val = "["
                       THEN ArrayArm(iter, parse_field_type(iter, depth + 1))
                   ELSE RErr(Expect("field type", ch.val))
             IN  IF field_type.status # "Ok" THEN field_type
                 ELSE LET c == consume(field_type.data)
                      IN  IF c.status # "Ok" THEN c
                          ELSE ROk(field_type.val, c.data)

\* parse_return_desc (lib.rs 125-134)
parse_return_desc(iter) ==
    LET a == accept(iter, "V")
    IN  IF a.status # "Ok" THEN a
        ELSE IF a.val
             THEN LET c == consume(iter)
                  IN  IF c.status # "Ok" THEN c ELSE ROk([t |-> "Void"], c.data)
             ELSE parse_field_type(iter, 1)

\* the `while peek(&mut iter)? != ')'` loop of parse_method (lib.rs 144-146)
RECURSIVE parse_params(_, _)
parse_params(iter, params) ==
    LET ch == peek(iter)
    IN  IF ch.status # "Ok" THEN ch
        ELSE IF ch.val = ")" THEN ROk(params, iter)
        ELSE LET r == parse_field_type(iter, 1)
             IN  IF r.status # "Ok" THEN r
                 ELSE parse_params(r.data, Append(params, r.val))

\* parse_method (lib.rs 136-151) as its callers see it: the pair
\* (params, return_desc), an error, or the abort of parse_field_type.
\* method_return is line 150, method_close lines 147-149, method_open
\* lines 140-146.
method_return(params, r) ==
    IF r.status # "Ok" THEN r
    ELSE ROk([params |-> params, return_desc |-> r.val], r.data)

method_close(p) ==
    IF p.status # "Ok" THEN p
    ELSE IF expect(p.data, ")").status # "Ok" THEN expect(p.data, ")")
    ELSE method_return(p.val, parse_return_desc(consume(p.data).data))

method_open(iter, e) ==
    IF e.status # "Ok" THEN e
    ELSE method_close(parse_params(consume(iter).data, <<>>))

parse_method(into) ==
    method_open([pos |-> 0, chars |-> into], expect([pos |-> 0, chars |-> into], "("))

DescFail(r) ==
    /\ desc_status' = r.status
    /\ desc_error' = r.err
    /\ UNCHANGED <<desc_iter, desc_params, desc_return>>

\* parse_method, lines 139-143: expect '(' and consume it
ParseMethodOpen ==
    /\ desc_status = "start"
    /\ LET e == expect(desc_iter, "(")
       IN  IF e.status # "Ok" THEN DescFail(e)
           ELSE /\ desc_iter' = consume(desc_iter).data
                /\ desc_status' = "params"
                /\ UNCHANGED <<desc_params, desc_return, desc_error>>
    /\ UNCHANGED DescOthers

\* parse_method, lines 144-146: one iteration of the parameter loop
ParseMethodParam ==
    /\ desc_status = "params"
    /\ LET ch == peek(desc_iter)
       IN  /\ ch.status = "Ok" => ch.val # ")"
           /\ IF ch.status # "Ok" THEN DescFail(ch)
              ELSE LET r == parse_field_type(desc_iter, 1)
                   IN  IF r.status # "Ok" THEN DescFail(r)
                       ELSE /\ desc_params' = Append(desc_params, r.val)
                            /\ desc_iter' = r.data
                            /\ UNCHANGED <<desc_return, desc_status, desc_error>>
    /\ UNCHANGED DescOthers

\* parse_method, lines 144 and 147-150: the loop ends at ')', which is
\* expected and consumed, and the return descriptor is parsed
ParseMethodReturn ==
    /\ desc_status = "params"
    /\ LET ch == peek(desc_iter)
       IN  /\ ch.status = "Ok" /\ ch.val = ")"
           /\ LET e == expect(desc_iter, ")")
                  c == consume(desc_iter)
                  r == parse_return_desc(c.data)
              IN  IF e.status # "Ok" THEN DescFail(e)
                  ELSE IF r.status # "Ok" THEN DescFail(r)
                  ELSE /\ desc_return' = r.val
                       /\ desc_iter' = r.data
                       /\ desc_status' = "Ok"
                       /\ UNCHANGED <<desc_params, desc_error>>
    /\ UNCHANGED DescOthers

\* ------------------------------------------------------------------------
\* Descriptors given to parse_method
\* ------------------------------------------------------------------------

MaxDescLen == 4     \* longest descriptor enumerated char by char

DescAlphabet == {"(", ")", "I", "V", "L", ";", "[", "X", "a"}

\* "()V", "(II)V", "(I)", "(X)V", "(I[La;)J" and "(I[Ljava/lang/String;)J"
DescExamples ==
    { <<"(", ")", "V">>,
      <<"(", "I", "I", ")", "V">>,
      <<"(", "I", ")">>,
      <<"(", "X", ")", "V">>,
      <<"(", "L", "a", ";", "J", ")", "L", "a", ";">>,
      <<"(", "I", "[", "L", "a", ";", ")", "J">>,
      <<"(", "I", "[", "L", "j", "a", "v", "a", "/", "l", "a", "n", "g", "/",
        "S", "t", "r", "i", "n", "g", ";", ")", "J">> }

\* one parameter and a return type, over every primitive letter and V
DescPrimitives ==
    {<<"(", x, ")", y>> : x \in PrimitiveChars \cup {"V"}, y \in PrimitiveChars \cup {"V"}}

Descriptors == SeqsUpTo(DescAlphabet, MaxDescLen) \cup DescExamples \cup DescPrimitives

\* ------------------------------------------------------------------------
\* Properties of the descriptor parser
\* ------------------------------------------------------------------------

chars == desc_iter.chars

\* The descriptor grammar, read from position i (0-based) of s:
\*   FieldType ::= B | C | D | F | I | J | S | Z | L name ; | [ FieldType
GOk(type, next) == [kind |-> "Ok", type |-> type, next |-> next]
GEOF == [kind |-> "EOF"]
GExpect(at, got) == [kind |-> "Expect", at |-> at, got |-> got]

RECURSIVE GName(_, _, _)
GName(s, i, name) ==
    IF i >= Len(s) THEN GEOF
    ELSE IF s[i + 1] = ";" THEN GOk([t |-> "Reference", name |-> name], i + 1)
    ELSE GName(s, i + 1, Append(name, s[i + 1]))

RECURSIVE GFieldType(_, _, _)
GFieldType(s, i, at) ==
    IF i >= Len(s) THEN GEOF
    ELSE IF s[i + 1] \in PrimitiveChars THEN GOk([t |-> PrimitiveType(s[i + 1])], i + 1)
    ELSE IF s[i + 1] = "L" THEN GName(s, i + 1, <<>>)
    ELSE IF s[i + 1] = "["
        THEN LET e == GFieldType(s, i + 1, "element")
             IN  IF e.kind # "Ok" THEN e
                 ELSE GOk([t |-> "Array", inner |-> e.type], e.next)
    ELSE GExpect(at, s[i + 1])

\*   Method ::= ( FieldType* ) (FieldType | V)
RECURSIVE GParams(_, _, _)
GParams(s, i, params) ==
    IF i >= Len(s) THEN GEOF
    ELSE IF s[i + 1] = ")"
        THEN IF i + 1 >= Len(s) THEN GEOF
             ELSE IF s[i + 2] = "V"
                 THEN [kind |-> "Ok", params |-> params, ret |-> [t |-> "Void"],
                       next |-> i + 2]
             ELSE LET r == GFieldType(s, i + 1, "return")
                  IN  IF r.kind # "Ok" THEN r
                      ELSE [kind |-> "Ok", params |-> params, ret |-> r.type,
                            next |-> r.next]
    ELSE LET f == GFieldType(s, i, "parameter")
         IN  IF f.kind # "Ok" THEN f
             ELSE GParams(s, f.next, Append(params, f.type))

GMethod(s) ==
    IF s = <<>> THEN GEOF
    ELSE IF s[1] # "(" THEN GExpect("open", s[1])
    ELSE GParams(s, 1, <<>>)

WellFormed(s) == GMethod(s).kind = "Ok" /\ GMethod(s).next = Len(s)

DescStopped == desc_status \in {"Ok", "Err", "Abort"}

\* C5 (as claimed): on every well-formed method descriptor parse_method
\* terminates and returns the parameter types in order and the return type,
\* '[T' as Array{T} and 'L<name>;' as Reference{name}.
C5_AsClaimed ==
    (DescStopped /\ WellFormed(chars)) =>
        /\ desc_status = "Ok"
        /\ desc_params = GMethod(chars).params
        /\ desc_return = GMethod(chars).ret

\* C6 (as claimed): parse_method returns EOF when the input ends before a
\* complete descriptor has been read, and Expect carrying the offending
\* char when the first char is not '(' or a parameter position holds a char
\* that starts no field type.
C6_AsClaimed ==
    DescStopped =>
        LET g == GMethod(chars)
        IN  /\ g.kind = "EOF" => desc_status = "Err" /\ desc_error = EOF
            /\ (g.kind = "Expect" /\ g.at = "open") =>
                  desc_status = "Err" /\ desc_error = Expect("(", g.got)
            /\ (g.kind = "Expect" /\ g.at = "parameter") =>
                  desc_status = "Err" /\ desc_error = Expect("field type", g.got)

\* Both statements hold of the descriptors that hold no '[' before the
\* position where parsing stops.
ArrayFree == \A i \in 1 .. Len(chars) : chars[i] # "["

DescArrayFreeParse == ArrayFree => C5_AsClaimed
DescArrayFreeErrors == ArrayFree => C6_AsClaimed

\* ------------------------------------------------------------------------
\* gen_control_flow_graph (lib.rs 214-344)
\* ------------------------------------------------------------------------

\* the Option<usize> of get_index_for_pos: an index, or None
None == -1

\* get_index_for_pos (lib.rs 214-221): 0-based index of the first
\* instruction at pc pos
get_index_for_pos(instrs, pos) ==
    LET hits == {i \in 1 .. Len(instrs) : instrs[i].pos = pos}
    IN  IF hits = {} THEN None
        ELSE (CHOOSE i \in hits : \A j \in hits : i <= j) - 1

\* the variants matched by the two `Instruction::IfNe { branch } | ...`
\* patterns (lib.rs 264-275, 312-323)
IfVariants ==
    {"IfNe", "IfEq", "IfLe", "IfGe", "IfGt", "IfLt", "IfICmpEq", "IfICmpNe",
     "IfICmpGt", "IfICmpGe", "IfICmpLt", "IfICmpLe"}

\* the variants matched by `Instruction::Return | ...` (lib.rs 331-336)
ReturnVariants == {"Return", "AReturn", "IReturn", "LReturn", "DReturn", "FReturn"}

\* the first loop (lib.rs 261-287): the jump indices pushed for instructions
\* i.., or the panic of `.unwrap()` on an unresolved branch target
RECURSIVE jump_indices(_, _, _)
jump_indices(instrs, i, acc) ==
    IF i > Len(instrs) THEN [panic |-> "", val |-> acc]
    ELSE LET instr == instrs[i].instr
         IN  IF instr.op \in IfVariants
             THEN LET true_pos == get_index_for_pos(instrs, instr.branch)
                  IN  IF true_pos = None
                      THEN [panic |-> "get_index_for_pos(..).unwrap()", val |-> acc]
                      ELSE jump_indices(instrs, i + 1, acc \o <<true_pos, i>>)
             ELSE IF instr.op = "Goto"
             THEN LET jump_pos == get_index_for_pos(instrs, instr.branch)
                  IN  IF jump_pos = None
                      THEN [panic |-> "get_index_for_pos(..).unwrap()", val |-> acc]
                      ELSE jump_indices(instrs, i + 1, Append(acc, jump_pos))
             ELSE jump_indices(instrs, i + 1, acc)

\* `split_indices.sort(); split_indices.dedup();`
RECURSIVE SortedSeq(_)
SortedSeq(S) ==
    IF S = {} THEN <<>>
    ELSE LET m == CHOOSE x \in S : \A y \in S : x <= y
         IN  <<m>> \o SortedSeq(S \ {m})

sort_dedup(indices) == SortedSeq({indices[i] : i \in 1 .. Len(indices)})

\* Vec::remove(k) for a k within the vector
RemoveAt(v, k) == SubSeq(v, 1, k) \o SubSeq(v, k + 2, Len(v))

\* `split_indices.remove(vec.len() - 1)`, which panics when the index is
\* not within split_indices
remove_last(split_indices, len) ==
    IF len - 1 >= Len(split_indices)
    THEN [panic |-> "split_indices.remove(vec.len() - 1)", val |-> split_indices]
    ELSE [panic |-> "", val |-> RemoveAt(split_indices, len - 1)]

\* the loop of split_at_multiple (lib.rs 244-254), from iteration i (0-based)
RECURSIVE split_loop(_, _, _, _)
split_loop(split_vector, split_indices, i, output) ==
    IF i >= Len(split_indices) THEN output
    ELSE LET index == split_indices[i + 1] - (IF i = 0 THEN 0 ELSE split_indices[i])
             first == SubSeq(split_vector, 1, index)
             second == SubSeq(split_vector, index + 1, Len(split_vector))
             pushed == Append(output, first)
         IN  split_loop(second, split_indices, i + 1,
                        IF i + 1 = Len(split_indices) THEN Append(pushed, second)
                        ELSE pushed)

\* split_at_multiple (lib.rs 229-257)
split_at_multiple(vec, indices) ==
    LET sorted == sort_dedup(indices)
    IN  IF Len(sorted) = 0 THEN [panic |-> "", val |-> <<vec>>]
        ELSE LET no_zero == IF sorted[1] = 0 THEN Tail(sorted) ELSE sorted
             IN  IF no_zero = <<>>
                 THEN [panic |-> "split_indices.last().unwrap()", val |-> <<>>]
                 ELSE LET kept == IF no_zero[Len(no_zero)] = Len(vec)
                                  THEN remove_last(no_zero, Len(vec))
                                  ELSE [panic |-> "", val |-> no_zero]
                      IN  IF kept.panic # "" THEN [panic |-> kept.panic, val |-> <<>>]
                          ELSE [panic |-> "", val |-> split_loop(vec, kept.val, 0, <<>>)]

\* `instructions.iter().skip_while(|el| el.0 <= *last_pos).next()`: the pc
\* of the first instruction past last_pos, or None
next_after(instrs, last_pos) ==
    LET later == {i \in 1 .. Len(instrs) :
                    \E j \in 1 .. i : instrs[j].pos > last_pos}
    IN  IF later = {} THEN None
        ELSE instrs[CHOOSE i \in later : \A j \in later : i <= j].pos

\* the successors pushed for a conditional branch (lib.rs 324-326)
if_branches(branch, next_pos) == <<branch, next_pos>>

\* the second loop's body (lib.rs 305-341): the branches of a block, or the
\* panic of `next.unwrap()`
store_jumps(instrs, el) ==
    LET last == el[Len(el)]
        next == next_after(instrs, last.pos)
    IN  IF last.instr.op \in IfVariants
        THEN IF next = None THEN [panic |-> "next.unwrap()", val |-> <<>>]
             ELSE [panic |-> "", val |-> if_branches(last.instr.branch, next)]
        ELSE IF last.instr.op = "Goto"
        THEN [panic |-> "", val |-> <<last.instr.branch>>]
        ELSE IF last.instr.op \in ReturnVariants
        THEN [panic |-> "", val |-> <<>>]
        ELSE IF next = None THEN [panic |-> "next.unwrap()", val |-> <<>>]
             ELSE [panic |-> "", val |-> <<next>>]

\* gen_control_flow_graph (lib.rs 259-344) on the list instrs
gen_control_flow_graph(instrs) ==
    LET jumps == jump_indices(instrs, 1, <<>>)
    IN  IF jumps.panic # "" THEN [panic |-> jumps.panic, val |-> <<>>]
        ELSE
        LET raw == split_at_multiple(instrs, jumps.val)
        IN  IF raw.panic # "" THEN [panic |-> raw.panic, val |-> <<>>]
            ELSE
            LET raw_blocks == raw.val
                n == Len(raw_blocks)
            IN  IF \E k \in 1 .. n : raw_blocks[k] = <<>>
                THEN [panic |-> "el[0]", val |-> <<>>]
                ELSE
                LET keys == {raw_blocks[k][1].pos : k \in 1 .. n}
                    \* a later entry with the same key replaces an earlier one
                    at(key) == raw_blocks[CHOOSE k \in 1 .. n :
                                   /\ raw_blocks[k][1].pos = key
                                   /\ \A j \in 1 .. n :
                                        raw_blocks[j][1].pos = key => j <= k]
                    jumped == [key \in keys |-> store_jumps(instrs, at(key))]
                IN  IF \E key \in keys : jumped[key].panic # ""
                    THEN [panic |-> "next.unwrap()", val |-> <<>>]
                    ELSE [panic |-> "",
                          val |-> [key \in keys |->
                                     [instructions |-> at(key),
                                      branches |-> jumped[key].val]]]

\* decompile, lines 652-656: once disassemble has returned Ok, the control
\* flow graph of its instruction list is built
GenControlFlowGraph ==
    /\ dis_status = "Ok"
    /\ cfg_status = "idle"
    /\ LET g == gen_control_flow_graph(instructions)
       IN  /\ cfg_status' = IF g.panic = "" THEN "Ok" ELSE "Panic"
           /\ cfg_panic' = g.panic
           /\ blocks' = g.val
    /\ UNCHANGED CfgOthers

\* ------------------------------------------------------------------------
\* Code arrays given to disassemble ahead of gen_control_flow_graph
\* ------------------------------------------------------------------------

MaxInstrs == 3      \* most instructions of a method

\* return, nop, athrow; ifeq, goto and ifnull with offsets that land on, or
\* miss, the instructions around them
CfgChunks ==
    { <<177>>, <<0>>, <<191>> }
    \cup {<<153>> \o o : o \in {<<0, 0>>, <<0, 4>>, <<255, 255>>, <<255, 253>>}}
    \cup {<<167>> \o o : o \in {<<0, 0>>, <<0, 3>>, <<0, 4>>, <<255, 255>>, <<255, 253>>}}
    \cup {<<198>> \o o : o \in {<<0, 4>>, <<255, 255>>}}

\* every branch opcode once, aimed at the return two instructions on
CfgBranchSweep ==
    {<<op, 0, 4, 0, 177>> : op \in Branch16Opcodes}
    \cup {<<op, 0, 0, 0, 6, 0, 177>> : op \in {200, 201}}

CfgCodeArrays ==
    {Flatten(c) : c \in SeqsUpTo(CfgChunks, MaxInstrs) \ {<<>>}} \cup CfgBranchSweep

\* ------------------------------------------------------------------------
\* Properties of the control flow graph
\* ------------------------------------------------------------------------

Keys == DOMAIN blocks

\* the keys in increasing order, and the blocks' instructions laid end to end
RECURSIVE ConcatBlocks(_)
ConcatBlocks(ks) ==
    IF ks = <<>> THEN <<>>
    ELSE blocks[Head(ks)].instructions \o ConcatBlocks(Tail(ks))

\* block key is a run instructions[a..b] of the method, a <= b
IsRun(key) ==
    \E a \in 1 .. Len(instructions) : \E b \in a .. Len(instructions) :
        blocks[key].instructions = SubSeq(instructions, a, b)

BlocksOf(i) ==
    {key \in Keys : \E j \in 1 .. Len(blocks[key].instructions) :
                       blocks[key].instructions[j] = instructions[i]}

\* C7: on every instruction list for which gen_control_flow_graph returns a
\* block map, every instruction is in exactly one block, every block is a
\* non-empty contiguous run keyed by the pc of its first instruction, the
\* blocks in key order concatenate to the input, and every successor pc is
\* a key of the map.
C7_AsClaimed ==
    cfg_status = "Ok" =>
        /\ \A i \in 1 .. Len(instructions) : Cardinality(BlocksOf(i)) = 1
        /\ \A key \in Keys :
            /\ blocks[key].instructions # <<>>
            /\ IsRun(key)
            /\ blocks[key].instructions[1].pos = key
        /\ ConcatBlocks(SortedSeq(Keys)) = instructions
        /\ \A key \in Keys : \A j \in 1 .. Len(blocks[key].branches) :
                blocks[key].branches[j] \in Keys

\* what does hold of the returned map: the blocks are disjoint non-empty
\* runs keyed by their first pc, successors are keys, and the map covers
\* the method unless it is empty
CfgPartitionUnlessEmpty ==
    cfg_status = "Ok" =>
        /\ \A i \in 1 .. Len(instructions) : Cardinality(BlocksOf(i)) <= 1
        /\ \A key \in Keys :
            /\ blocks[key].instructions # <<>>
            /\ IsRun(key)
            /\ blocks[key].instructions[1].pos = key
        /\ \A key \in Keys : \A j \in 1 .. Len(blocks[key].branches) :
                blocks[key].branches[j] \in Keys
        /\ Keys # {} => ConcatBlocks(SortedSeq(Keys)) = instructions

\* the instructions that branch on a condition: if<cond>, if_icmp<cond>,
\* if_acmp<cond>, ifnull, ifnonnull
ConditionalBranches ==
    {"IfEq", "IfNe", "IfLt", "IfGe", "IfGt", "IfLe", "IfICmpEq", "IfICmpNe",
     "IfICmpLt", "IfICmpGe", "IfICmpGt", "IfICmpLe", "IfACmpEq", "IfACmpNe",
     "IfNull", "IfNonNull"}

AnyReturn == {"IReturn", "LReturn", "FReturn", "DReturn", "AReturn", "Return"}

LastOf(key) == blocks[key].instructions[Len(blocks[key].instructions)]

\* the pc of the instruction that follows the one at pc in the method
FollowingPc(pc) ==
    LET i == CHOOSE k \in 1 .. Len(instructions) : instructions[k].pos = pc
    IN  IF i < Len(instructions) THEN instructions[i + 1].pos ELSE None

\* the successor list the last instruction of a block calls for
SuccessorsFor(last) ==
    IF last.instr.op \in ConditionalBranches
    THEN <<last.instr.branch, FollowingPc(last.pos)>>
    ELSE IF last.instr.op = "Goto" THEN <<last.instr.branch>>
    ELSE IF last.instr.op \in AnyReturn THEN <<>>
    ELSE <<FollowingPc(last.pos)>>

\* C8: in the returned map, the successor list of every block is
\* [branch_target, fall_through_pc] if its last instruction is a conditional
\* branch, [branch_target] if it is goto or goto_w, empty if it is a return,
\* and [pc of the next instruction] otherwise.
C8_AsClaimed ==
    cfg_status = "Ok" =>
        \A key \in Keys :
            blocks[key].instructions # <<>> =>
                blocks[key].branches = SuccessorsFor(LastOf(key))

\* what does hold: the claimed lists for every block whose last instruction
\* is not if_acmpeq, if_acmpne, ifnull or ifnonnull
CfgSuccessorsButRefCompare ==
    cfg_status = "Ok" =>
        \A key \in Keys :
            (/\ blocks[key].instructions # <<>>
             /\ LastOf(key).instr.op \notin {"IfACmpEq", "IfACmpNe", "IfNull", "IfNonNull"})
            => blocks[key].branches = SuccessorsFor(LastOf(key))

\* ------------------------------------------------------------------------
\* ConstantPool accessors (javaclass-rs/src/lib.rs 232-312)
\* ------------------------------------------------------------------------

InvalidCPEntry == [kind |-> "InvalidCPEntry"]

CpOk(v) == ROk(v, <<>>)

\* get_entry (233-239)
get_entry(pool, index) ==
    IF index \in DOMAIN pool THEN CpOk(pool[index]) ELSE RErr(InvalidCPEntry)

\* get_utf8_entry (241-247); utf8_of is its `if let` on the entry fetched
utf8_of(e) ==
    IF e.status # "Ok" THEN e
    ELSE IF e.val.tag = "Utf8" THEN CpOk(e.val.string)
    ELSE RErr(InvalidCPEntry)

get_utf8_entry(pool, index) == utf8_of(get_entry(pool, index))

\* get_class_entry (249-257)
class_named(name) ==
    IF name.status # "Ok" THEN name ELSE CpOk([name |-> name.val])

class_of(pool, e) ==
    IF e.status # "Ok" THEN e
    ELSE IF e.val.tag # "Class" THEN RErr(InvalidCPEntry)
    ELSE class_named(get_utf8_entry(pool, e.val.name_index))

get_class_entry(pool, index) == class_of(pool, get_entry(pool, index))

\* mutant: the descriptor's index is not followed
name_type_with_NameOnly(name, descriptor) ==
    IF name.status # "Ok" THEN name
    ELSE CpOk([name |-> name.val, descriptor |-> <<>>])

\* get_name_type_entry (259-273)
name_type_with(name, descriptor) ==
    IF name.status # "Ok" THEN name
    ELSE IF descriptor.status # "Ok" THEN descriptor
    ELSE CpOk([name |-> name.val, descriptor |-> descriptor.val])

name_type_of(pool, e) ==
    IF e.status # "Ok" THEN e
    ELSE IF e.val.tag # "NameAndType" THEN RErr(InvalidCPEntry)
    ELSE name_type_with(get_utf8_entry(pool, e.val.name_index),
                        get_utf8_entry(pool, e.val.descriptor_index))

get_name_type_entry(pool, index) == name_type_of(pool, get_entry(pool, index))

\* the struct built from a FieldRef, MethodRef or InterfaceMethodRef entry:
\* `class: self.get_class_entry(class_index)?, name_and_type: ...?`
member_with(class, name_and_type) ==
    IF class.status # "Ok" THEN class
    ELSE IF name_and_type.status # "Ok" THEN name_and_type
    ELSE CpOk([class |-> class.val, name_and_type |-> name_and_type.val])

member_data(pool, entry) ==
    member_with(get_class_entry(pool, entry.class_index),
                get_name_type_entry(pool, entry.name_and_type_index))

\* get_field_entry (275-287)
field_of(pool, e) ==
    IF e.status # "Ok" THEN e
    ELSE IF e.val.tag # "FieldRef" THEN RErr(InvalidCPEntry)
    ELSE member_data(pool, e.val)

get_field_entry(pool, index) == field_of(pool, get_entry(pool, index))

\* get_method_or_interface_entry (289-312)
method_with(member, is_interface) ==
    IF member.status # "Ok" THEN member
    ELSE CpOk([class |-> member.val.class,
               name_and_type |-> member.val.name_and_type,
               is_interface |-> is_interface])

method_of(pool, e) ==
    IF e.status # "Ok" THEN e
    ELSE IF e.val.tag \notin {"MethodRef", "InterfaceMethodRef"}
        THEN RErr(InvalidCPEntry)
    ELSE method_with(member_data(pool, e.val), e.val.tag = "InterfaceMethodRef")

get_method_or_interface_entry(pool, index) == method_of(pool, get_entry(pool, index))

\* a call of one of the accessors on the pool and index asked
Resolved(call, result) ==
    /\ res_call = ""
    /\ res_call' = call
    /\ res_result' = result
    /\ UNCHANGED <<res_constant_pool, res_index>>
    /\ UNCHANGED ResOthers

GetUtf8Entry ==
    Resolved("get_utf8_entry", get_utf8_entry(res_constant_pool, res_index))

GetClassEntry ==
    Resolved("get_class_entry", get_class_entry(res_constant_pool, res_index))

GetNameTypeEntry ==
    Resolved("get_name_type_entry", get_name_type_entry(res_constant_pool, res_index))

GetFieldEntry ==
    Resolved("get_field_entry", get_field_entry(res_constant_pool, res_index))

GetMethodOrInterfaceEntry ==
    Resolved("get_method_or_interface_entry",
             get_method_or_interface_entry(res_constant_pool, res_index))

\* ------------------------------------------------------------------------
\* decompile_block (lib.rs 504-628)
\* ------------------------------------------------------------------------

EmptyStack == [kind |-> "EmptyStack"]
StackSize(size) == [kind |-> "StackSize", size |-> size]
\* impl From<ClassFileError> / From<DescriptorParseError> (lib.rs 201-211)
FromClassFileError(err) == [kind |-> "ClassFileError", error |-> err]
FromDescriptorParseError(err) == [kind |-> "DescriptorParsing", error |-> err]

\* what one instruction leaves: the stack and statements, or the way out
BOk(stk, stmts) == [status |-> "Ok", stack |-> stk, statements |-> stmts]
BErr(err) == [status |-> "Err", err |-> err]
BPanic == [status |-> "Panic", err |-> [kind |-> "unimplemented"]]

\* `stack.pop().ok_or(DecompilerError::EmptyStack)?`: val is the value
\* popped, data the stack left
pop(stk) ==
    IF stk = <<>> THEN RErr(EmptyStack)
    ELSE ROk(stk[Len(stk)], SubSeq(stk, 1, Len(stk) - 1))

\* `for _ in 0..descriptor.0.len() { args.push(stack.pop()...?) }`
RECURSIVE pop_args(_, _, _)
pop_args(stk, n, args) ==
    IF n = 0 THEN ROk(args, stk)
    ELSE LET p == pop(stk)
         IN  IF p.status # "Ok" THEN p
             ELSE pop_args(p.data, n - 1, Append(args, p.val))

Reverse(v) == [i \in 1 .. Len(v) |-> v[Len(v) + 1 - i]]

\* `args.reverse()`
call_args(popped) == Reverse(popped)

\* the variable type pushed by iload, lload, fload, dload, aload
LoadType(op) ==
    CASE op = "ILoad" -> "Int"
      [] op = "LLoad" -> "Long"
      [] op = "FLoad" -> "Float"
      [] op = "DLoad" -> "Double"
      [] op = "ALoad" -> "Reference"

\* lines 544-568, from the last step to the first: the Call built,
\* the receiver popped (554-567), the arguments popped (550-553), the
\* descriptor parsed (546-547), the method resolved (545)
make_call(method, reference, popped) ==
    [ast |-> "Call", method_data |-> method, reference |-> reference,
     args |-> call_args(popped)]

invoke_call(method, descriptor, popped, reference, stmts) ==
    IF reference.status # "Ok" THEN BErr(reference.err)
    ELSE IF descriptor.return_desc = [t |-> "Void"]
    THEN BOk(reference.data,
             Append(stmts, make_call(method, reference.val, popped.val)))
    ELSE BOk(Append(reference.data, make_call(method, reference.val, popped.val)),
             stmts)

invoke_pop(method, descriptor, popped, stmts) ==
    IF popped.status # "Ok" THEN BErr(popped.err)
    ELSE invoke_call(method, descriptor, popped, pop(popped.data), stmts)

invoke_parsed(method, descriptor, stk, stmts) ==
    IF descriptor.status = "Err" THEN BErr(FromDescriptorParseError(descriptor.err))
    ELSE IF descriptor.status # "Ok"
    THEN [status |-> descriptor.status, err |-> descriptor.err]
    ELSE invoke_pop(method, descriptor.val,
                    pop_args(stk, Len(descriptor.val.params), <<>>), stmts)

invoke_resolved(method, stk, stmts) ==
    IF method.status # "Ok" THEN BErr(FromClassFileError(method.err))
    ELSE invoke_parsed(method.val, parse_method(method.val.name_and_type.descriptor),
                       stk, stmts)

exec_invoke(index, stk, stmts, pool) ==
    invoke_resolved(get_method_or_interface_entry(pool, index), stk, stmts)

\* lines 572-581
store_popped(p, index, stmts) ==
    IF p.status # "Ok" THEN BErr(p.err)
    ELSE BOk(p.data, Append(stmts, [ast |-> "Set", index |-> index, value |-> p.val]))

\* lines 582-585
static_of(field, stk, stmts) ==
    IF field.status # "Ok" THEN BErr(FromClassFileError(field.err))
    ELSE BOk(Append(stk, [ast |-> "Static", field_data |-> field.val]), stmts)

\* lines 586-589
length_of(reference, stmts) ==
    IF reference.status # "Ok" THEN BErr(reference.err)
    ELSE BOk(Append(reference.data, [ast |-> "ArrayLength", reference |-> reference.val]),
             stmts)

\* lines 590-602
const_string(value, stk, stmts) ==
    IF value.status # "Ok" THEN BErr(FromClassFileError(value.err))
    ELSE BOk(Append(stk, [ast |-> "ConstString", value |-> value.val]), stmts)

load_const_of(e, stk, stmts, pool) ==
    IF e.status # "Ok" THEN BErr(FromClassFileError(e.err))
    ELSE IF e.val.tag = "String"
    THEN const_string(get_utf8_entry(pool, e.val.string_index), stk, stmts)
    ELSE IF e.val.tag \in {"Long", "Integer"}
    THEN BOk(Append(stk, [ast |-> "ConstInt", value |-> e.val.data]), stmts)
    ELSE IF e.val.tag \in {"Double", "Float"}
    THEN BOk(Append(stk, [ast |-> "ConstFloat", value |-> e.val.data]), stmts)
    ELSE BPanic

exec_load_const(index, stk, stmts, pool) ==
    load_const_of(get_entry(pool, index), stk, stmts, pool)

\* mutant: the operands of the product change places
mul_of_Swapped(rhs, lhs, stmts) ==
    IF lhs.status # "Ok" THEN BErr(lhs.err)
    ELSE BOk(Append(lhs.data, [ast |-> "Mul", lhs |-> rhs, rhs |-> lhs.val]), stmts)

\* lines 606-610
mul_of(rhs, lhs, stmts) ==
    IF lhs.status # "Ok" THEN BErr(lhs.err)
    ELSE BOk(Append(lhs.data, [ast |-> "Mul", lhs |-> lhs.val, rhs |-> rhs]), stmts)

mul_popped(rhs, stmts) ==
    IF rhs.status # "Ok" THEN BErr(rhs.err)
    ELSE mul_of(rhs.val, pop(rhs.data), stmts)

\* lines 611-615
byte_cast_of(value, stmts) ==
    IF value.status # "Ok" THEN BErr(value.err)
    ELSE BOk(Append(value.data, [ast |-> "BasicCast", cast_type |-> "Byte",
                                 value |-> value.val]), stmts)

\* lines 616-620
class_cast_popped(cast_type, value, stmts) ==
    IF value.status # "Ok" THEN BErr(value.err)
    ELSE BOk(Append(value.data, [ast |-> "ClassCast", cast_type |-> cast_type,
                                 value |-> value.val]), stmts)

class_cast_of(cast_type, stk, stmts) ==
    IF cast_type.status # "Ok" THEN BErr(FromClassFileError(cast_type.err))
    ELSE class_cast_popped(cast_type.val, pop(stk), stmts)

\* the body of the `for (pos, code) in &block.instructions` loop (511-623)
exec(code, stk, stmts, pool) ==
    IF code.op \in {"ILoad", "LLoad", "FLoad", "DLoad", "ALoad"}
    THEN BOk(Append(stk, [ast |-> "Variable", index |-> code.index,
                          vartype |-> LoadType(code.op)]), stmts)
    ELSE IF code.op \in {"InvokeSpecial", "InvokeVirtual"}
    THEN exec_invoke(code.index, stk, stmts, pool)
    ELSE IF code.op = "Return"
    THEN BOk(stk, Append(stmts, [ast |-> "VoidReturn"]))
    ELSE IF code.op \in {"IStore", "LStore", "FStore", "DStore", "AStore"}
    THEN store_popped(pop(stk), code.index, stmts)
    ELSE IF code.op = "GetStatic"
    THEN static_of(get_field_entry(pool, code.index), stk, stmts)
    ELSE IF code.op = "ArrayLength" THEN length_of(pop(stk), stmts)
    ELSE IF code.op = "LoadConst"
    THEN exec_load_const(code.index, stk, stmts, pool)
    ELSE IF code.op = "IConst"
    THEN BOk(Append(stk, [ast |-> "ConstInt", value |-> code.value]), stmts)
    ELSE IF code.op = "IMul" THEN mul_popped(pop(stk), stmts)
    ELSE IF code.op = "I2b" THEN byte_cast_of(pop(stk), stmts)
    ELSE IF code.op = "CheckCast"
    THEN class_cast_of(get_class_entry(pool, code.index), stk, stmts)
    ELSE BPanic

\* mutant: the stack left over is not looked at
block_result_Unchecked(stk, stmts) == BOk(stk, stmts)

\* lines 624-627
block_result(stk, stmts) ==
    IF Len(stk) # 0 THEN BErr(StackSize(Len(stk))) ELSE BOk(stk, stmts)

\* what an iteration that ended as r leaves in the state
Executed(r) ==
    IF r.status = "Ok"
    THEN /\ stack' = r.stack
         /\ statements' = r.statements
         /\ blk_next' = blk_next + 1
         /\ UNCHANGED <<blk_status, blk_error>>
    ELSE /\ blk_status' = r.status
         /\ blk_error' = r.err
         /\ UNCHANGED <<stack, statements, blk_next>>

\* one iteration of the loop over block.instructions
DecompileBlockStep ==
    /\ blk_status = "loop"
    /\ blk_next <= Len(block)
    /\ Executed(exec(block[blk_next].instr, stack, statements, constant_pool))
    /\ UNCHANGED <<block, constant_pool>>
    /\ UNCHANGED BlkOthers

\* what the function's last lines leave in the state
Returned(r) ==
    /\ blk_status' = r.status
    /\ blk_error' = IF r.status = "Ok" THEN NoError ELSE r.err

\* the loop is over: lines 624-627
DecompileBlockReturn ==
    /\ blk_status = "loop"
    /\ blk_next > Len(block)
    /\ Returned(block_result(stack, statements))
    /\ UNCHANGED <<block, constant_pool, blk_next, stack, statements>>
    /\ UNCHANGED BlkOthers

\* ------------------------------------------------------------------------
\* Blocks and constant pools given to decompile_block
\* ------------------------------------------------------------------------

MaxLoads == 3       \* most values pushed at the head of a block

Utf8(string) == [tag |-> "Utf8", string |-> string]
NameAndType(n, d) == [tag |-> "NameAndType", name_index |-> n, descriptor_index |-> d]
MethodRef(c, nt) == [tag |-> "MethodRef", class_index |-> c, name_and_type_index |-> nt]

\* a pool with methods m of five descriptors, a field, a class and constants
ClassPool ==
    << Utf8(<<"A">>),                                   \* 1
       [tag |-> "Class", name_index |-> 1],             \* 2
       Utf8(<<"m">>),                                   \* 3
       Utf8(<<"(", ")", "V">>),                         \* 4
       NameAndType(3, 4),                               \* 5
       MethodRef(2, 5),                                 \* 6   A.m()V
       Utf8(<<"(", "I", "I", ")", "V">>),               \* 7
       NameAndType(3, 7),                               \* 8
       MethodRef(2, 8),                                 \* 9   A.m(II)V
       Utf8(<<"(", "I", ")", "I">>),                    \* 10
       NameAndType(3, 10),                              \* 11
       [tag |-> "InterfaceMethodRef", class_index |-> 2,
        name_and_type_index |-> 11],                    \* 12  A.m(I)I
       Utf8(<<"(", "[", "I", ")", "V">>),               \* 13
       NameAndType(3, 13),                              \* 14
       MethodRef(2, 14),                                \* 15  A.m([I)V
       Utf8(<<"(", "I">>),                              \* 16
       NameAndType(3, 16),                              \* 17
       MethodRef(2, 17),                                \* 18  A.m with "(I"
       [tag |-> "Integer", data |-> 7],                 \* 19
       Utf8(<<"I">>),                                   \* 20
       NameAndType(3, 20),                              \* 21
       [tag |-> "FieldRef", class_index |-> 2,
        name_and_type_index |-> 21],                    \* 22  A.m:I
       [tag |-> "String", string_index |-> 3] >>        \* 23

ConstantPools == {ClassPool}

Op(name) == [op |-> name]
OpIndex(name, index) == [op |-> name, index |-> index]

\* this, var1 and the constant 2
Loads == {OpIndex("ALoad", 0), OpIndex("ILoad", 1), [op |-> "IConst", value |-> 2]}

\* the instructions a block goes on with: handled ones, invokes of every
\* method of the pool and of an index the pool lacks, and the unhandled iadd
Ops ==
    { OpIndex("IStore", 1), Op("Return"), Op("IMul"), Op("I2b"), Op("ArrayLength"),
      OpIndex("InvokeVirtual", 6), OpIndex("InvokeVirtual", 9),
      OpIndex("InvokeSpecial", 12), OpIndex("InvokeVirtual", 15),
      OpIndex("InvokeSpecial", 18), OpIndex("InvokeVirtual", 99),
      OpIndex("LoadConst", 19), OpIndex("LoadConst", 2), OpIndex("LoadConst", 23),
      OpIndex("GetStatic", 22), OpIndex("CheckCast", 2), Op("IAdd") }

Tails == {<<>>} \cup {<<a>> : a \in Ops} \cup {<<a, b>> : a, b \in Ops}

\* each typed load with its store
LoadStorePairs ==
    { <<OpIndex("ILoad", 1), OpIndex("IStore", 2)>>,
      <<OpIndex("LLoad", 1), OpIndex("LStore", 2)>>,
      <<OpIndex("FLoad", 1), OpIndex("FStore", 2)>>,
      <<OpIndex("DLoad", 1), OpIndex("DStore", 2)>>,
      <<OpIndex("ALoad", 1), OpIndex("AStore", 2)>> }

\* the (pc, instruction) pairs of a block; decompile_block only prints the pc
WithPcs(codes_) == [i \in 1 .. Len(codes_) |-> [pos |-> i - 1, instr |-> codes_[i]]]

\* [iconst_1, iconst_2, imul, istore_0]
ProductBlock ==
    WithPcs(<< [op |-> "IConst", value |-> 1], [op |-> "IConst", value |-> 2],
               Op("IMul"), OpIndex("IStore", 0) >>)

\* each of the constant instructions with a store: [iconst_5, istore_0],
\* [bipush 7, istore_0], [bipush -8, istore_0], [sipush 300, istore_0],
\* [lconst_1, lstore_1], [fconst_2, fstore_0], [dconst_1, dstore_0]
ConstStorePairs ==
    { << [op |-> "IConst", value |-> 5], OpIndex("IStore", 0) >>,
      << [op |-> "BIPush", value |-> 7], OpIndex("IStore", 0) >>,
      << [op |-> "BIPush", value |-> -8], OpIndex("IStore", 0) >>,
      << [op |-> "SIPush", value |-> 300], OpIndex("IStore", 0) >>,
      << [op |-> "LConst", value |-> 1], OpIndex("LStore", 1) >>,
      << [op |-> "FConst", value |-> 2], OpIndex("FStore", 0) >>,
      << [op |-> "DConst", value |-> 1], OpIndex("DStore", 0) >> }

\* blocks that go on, after a load or two, with an instruction that
\* decompile_block has no arm for: arithmetic, a field access, the
\* terminators the control flow graph ends its blocks with, a switch, athrow
NoArmOps ==
    { Op("IAdd"), Op("ISub"), Op("Nop"), Op("AThrow"), Op("IReturn"), Op("Dup"),
      OpIndex("GetField", 22), OpIndex("PutField", 22), OpIndex("InvokeStatic", 6),
      OpIndex("New", 2),
      [op |-> "IfEq", branch |-> 0], [op |-> "IfICmpLt", branch |-> 0],
      [op |-> "IfNull", branch |-> 0], [op |-> "Goto", branch |-> 0] }

NoArmBlocks ==
    { << OpIndex("ALoad", 0), OpIndex("ILoad", 1), a >> : a \in NoArmOps }
    \cup { << a >> : a \in NoArmOps }
    \cup { << OpIndex("ILoad", 1), OpIndex("IStore", 2), a, Op("Return") >> : a \in NoArmOps }

Blocks ==
    {WithPcs(l \o t) : l \in SeqsUpTo(Loads, MaxLoads), t \in Tails}
    \cup {WithPcs(b) : b \in LoadStorePairs}
    \cup {ProductBlock}
    \cup {WithPcs(b) : b \in ConstStorePairs}
    \cup {WithPcs(b) : b \in NoArmBlocks}

\* ------------------------------------------------------------------------
\* Properties of decompile_block
\* ------------------------------------------------------------------------

Running == blk_status = "loop" /\ blk_next <= Len(block)
Finishing == blk_status = "loop" /\ blk_next > Len(block)
Cur == block[blk_next].instr

\* what the constant pool holds at an index
TagAt(i) == IF i \in DOMAIN constant_pool THEN constant_pool[i].tag ELSE "absent"
IsClass(i) == TagAt(i) = "Class" /\ TagAt(constant_pool[i].name_index) = "Utf8"
IsNameAndType(i) ==
    /\ TagAt(i) = "NameAndType"
    /\ TagAt(constant_pool[i].name_index) = "Utf8"
    /\ TagAt(constant_pool[i].descriptor_index) = "Utf8"
IsMethod(i) ==
    /\ TagAt(i) \in {"MethodRef", "InterfaceMethodRef"}
    /\ IsClass(constant_pool[i].class_index)
    /\ IsNameAndType(constant_pool[i].name_and_type_index)
MethodDescriptor(i) ==
    constant_pool[constant_pool[constant_pool[i].name_and_type_index].descriptor_index].string

IsInvoke(code) == code.op \in {"InvokeVirtual", "InvokeSpecial"}

\* the values an instruction pops once it gets to its pops: a checkcast
\* after its class is resolved, an invoke after its method is resolved and
\* its descriptor parsed
Pops(code) ==
    IF code.op \in {"IStore", "LStore", "FStore", "DStore", "AStore", "ArrayLength", "I2b"}
    THEN 1
    ELSE IF code.op = "IMul" THEN 2
    ELSE IF code.op = "CheckCast" THEN (IF IsClass(code.index) THEN 1 ELSE 0)
    ELSE IF IsInvoke(code) /\ IsMethod(code.index)
    THEN LET d == parse_method(MethodDescriptor(code.index))
         IN  IF d.status = "Ok" THEN Len(d.val.params) + 1 ELSE 0
    ELSE 0

\* C9: decompile_block returns Ok only with the stack empty after the last
\* instruction; with n > 0 values left after the last instruction it returns
\* StackSize{size: n}; and when an instruction pops from the empty stack it
\* returns EmptyStack.
C9_StackDiscipline ==
    [][ /\ blk_status' = "Ok" => (stack' = <<>> /\ blk_next' > Len(block))
        /\ (Finishing /\ Len(stack) > 0) =>
              (blk_status' = "Err" /\ blk_error' = [kind |-> "StackSize",
                                                    size |-> Len(stack)])
        /\ (Running /\ Pops(Cur) > Len(stack)) =>
              (blk_status' = "Err" /\ blk_error' = [kind |-> "EmptyStack"]) ]_vars

\* two values were left on the stack and StackSize{2} came back
C9_Witness ==
    /\ blk_status = "Err"
    /\ blk_error = [kind |-> "StackSize", size |-> 2]
    /\ Len(stack) = 2
    /\ blk_next > Len(block)

\* an imul found one value on the stack and EmptyStack came back
C9_WitnessEmptyStack ==
    /\ blk_status = "Err"
    /\ blk_error = [kind |-> "EmptyStack"]
    /\ blk_next <= Len(block)
    /\ Cur.op = "IMul"
    /\ Len(stack) = 1

\* a block came back Ok with a statement
C9_WitnessOk == blk_status = "Ok" /\ stack = <<>> /\ Len(statements) > 0

\* what the claim says of an invoke met with stack s, the descriptor of the
\* resolved method having the parameters and return type g
InvokeAsClaimed(g, s) ==
    LET n == Len(g.params)
        L == Len(s)
        below == SubSeq(s, 1, L - n - 1)
        IsTheCall(c) ==
            /\ c.ast = "Call"
            /\ c.reference = s[L - n]
            /\ c.args = SubSeq(s, L - n + 1, L)
    IN  /\ blk_status' = "loop"
        /\ IF g.ret = [t |-> "Void"]
           THEN /\ stack' = below
                /\ Len(statements') = Len(statements) + 1
                /\ SubSeq(statements', 1, Len(statements)) = statements
                /\ IsTheCall(statements'[Len(statements')])
           ELSE /\ statements' = statements
                /\ Len(stack') = L - n
                /\ SubSeq(stack', 1, L - n - 1) = below
                /\ IsTheCall(stack'[L - n])

\* an invoke of a resolved method whose descriptor has n parameters, met
\* with at least n + 1 values on the stack
InvokeCase ==
    /\ Running
    /\ IsInvoke(Cur)
    /\ IsMethod(Cur.index)
    /\ GMethod(MethodDescriptor(Cur.index)).kind = "Ok"
    /\ Len(stack) > Len(GMethod(MethodDescriptor(Cur.index)).params)

\* C10 (as claimed): an invokevirtual or invokespecial whose resolved method
\* descriptor has n parameters pops exactly n + 1 values, the arguments in
\* push order above the receiver; a Void call is appended to the statements
\* and nothing is pushed, any other call is pushed and no statement emitted.
C10_AsClaimed ==
    [][ InvokeCase => InvokeAsClaimed(GMethod(MethodDescriptor(Cur.index)), stack) ]_vars

\* The statement holds of the methods whose descriptor holds no '['.
InvokeArrayFree ==
    [][ (InvokeCase /\ \A i \in 1 .. Len(MethodDescriptor(Cur.index)) :
                           MethodDescriptor(Cur.index)[i] # "[")
        => InvokeAsClaimed(GMethod(MethodDescriptor(Cur.index)), stack) ]_vars

\* m(II)V was called on this with a variable and 2: a statement, nothing pushed
InvokeVoidDone ==
    /\ blk_status = "loop"
    /\ stack = <<>>
    /\ Len(statements) = 1
    /\ statements[1].ast = "Call"
    /\ statements[1].reference.ast = "Variable"
    /\ Len(statements[1].args) = 2
    /\ statements[1].args[1].ast = "Variable"
    /\ statements[1].args[2].ast = "ConstInt"

IsStore(code) == code.op \in {"IStore", "LStore", "FStore", "DStore", "AStore"}

ProductStatements ==
    << [ast |-> "Set", index |-> 0,
        value |-> [ast |-> "Mul", lhs |-> [ast |-> "ConstInt", value |-> 1],
                   rhs |-> [ast |-> "ConstInt", value |-> 2]]] >>

\* C11: imul pops the later-pushed value as rhs and the earlier-pushed one
\* as lhs and pushes Mul{lhs, rhs}; a store of index i pops one value v and
\* appends Set{i, v}; the block [iconst_1, iconst_2, imul, istore_0] returns
\* exactly [Set{0, Mul{ConstInt(1), ConstInt(2)}}] with the stack empty.
C11_MulAndStore ==
    [][ /\ (Running /\ Cur.op = "IMul" /\ Len(stack) >= 2) =>
              /\ statements' = statements
              /\ stack' = Append(SubSeq(stack, 1, Len(stack) - 2),
                                 [ast |-> "Mul", lhs |-> stack[Len(stack) - 1],
                                  rhs |-> stack[Len(stack)]])
        /\ (Running /\ IsStore(Cur) /\ Len(stack) >= 1) =>
              /\ stack' = SubSeq(stack, 1, Len(stack) - 1)
              /\ statements' = Append(statements,
                                      [ast |-> "Set", index |-> Cur.index,
                                       value |-> stack[Len(stack)]])
        /\ (block = ProductBlock /\ blk_next > Len(block)) =>
              (blk_status' = "Ok" /\ statements' = ProductStatements /\ stack' = <<>>)
      ]_vars

\* the product block came back Ok with its one statement
C11_Witness ==
    /\ block = ProductBlock
    /\ blk_status = "Ok"
    /\ statements = ProductStatements
    /\ stack = <<>>

\* ------------------------------------------------------------------------
\* mutf8::to_string (javaclass-rs/src/lib.rs): the modified-UTF-8 decoder.
\* A String is carried as the sequence of its chars' scalar values.
\* ------------------------------------------------------------------------

\* `a & b` on unsigned integers
RECURSIVE BitAnd(_, _)
BitAnd(a, b) ==
    IF a = 0 \/ b = 0 THEN 0
    ELSE (a % 2) * (b % 2) + 2 * BitAnd(a \div 2, b \div 2)

\* `a | b` on unsigned integers
RECURSIVE BitOr(_, _)
BitOr(a, b) ==
    IF a = 0 THEN b
    ELSE IF b = 0 THEN a
    ELSE (IF a % 2 = 1 \/ b % 2 = 1 THEN 1 ELSE 0) + 2 * BitOr(a \div 2, b \div 2)

\* `!b` on a u8
NotU8(b) == 255 - b

\* `x << n` on a u32 that does not overflow
Shl(x, n) == x * (2 ^ n)

MissingByte == [kind |-> "MissingByte"]
UnknownByte == [kind |-> "UnknownByte"]
InvalidChar == [kind |-> "InvalidChar"]

\* the result of one turn of the loop: a char pushed and the iterator's new
\* position, or the error returned
UnitOk(c, pos) == [status |-> "Ok", char |-> c, pos |-> pos]
UnitErr(e) == [status |-> "Err", err |-> e]

\* iterator.next() at position k (0-based): the byte, or None at the end
next_byte(bytes, k) == IF k < Len(bytes) THEN bytes[k + 1] ELSE None

\* std::char::from_u32(codepoint).ok_or(InvalidChar), then s.push
from_u32(codepoint, pos) ==
    IF codepoint > 1114111 \/ (codepoint >= 55296 /\ codepoint <= 57343)
    THEN UnitErr(InvalidChar)
    ELSE UnitOk(codepoint, pos)

\* mutant: the high surrogate's bits are shifted by 10 as in UTF-16
surrogate_codepoint_Utf16(b2, b3, b4, b5) ==
    65536 + Shl(BitAnd(b2, 15), 10) + Shl(BitAnd(b3, 63), 10)
          + Shl(BitAnd(b4, 15), 6) + BitAnd(b5, 63)

\* lines 39-43
surrogate_codepoint(b2, b3, b4, b5) ==
    65536 + Shl(BitAnd(b2, 15), 16) + Shl(BitAnd(b3, 63), 10)
          + Shl(BitAnd(b4, 15), 6) + BitAnd(b5, 63)

\* lines 54-56
three_byte_codepoint(b, b2, b3) ==
    BitOr(BitOr(BitAnd(b3, 63), Shl(BitAnd(b2, 63), 6)), Shl(BitAnd(b, 31), 12))

\* mutant: the leading byte's bits are dropped
two_byte_codepoint_Low(b, b2) == BitAnd(b2, 63)

\* line 63
two_byte_codepoint(b, b2) == BitOr(BitAnd(b2, 63), Shl(BitAnd(b, 31), 6))

\* the arm of b == 0b1110_1101 (lines 19-44); k is the position after b.
\* `!x & m == v` is ((!x) & m) == v in Rust: bitwise not, then the mask.
surrogate_unit(bytes, k) ==
    IF next_byte(bytes, k) = None THEN UnitErr(MissingByte)
    ELSE IF BitAnd(NotU8(next_byte(bytes, k)), 240) = 160 THEN UnitErr(UnknownByte)
    ELSE IF next_byte(bytes, k + 1) = None THEN UnitErr(MissingByte)
    ELSE IF BitAnd(NotU8(next_byte(bytes, k + 1)), 192) = 128 THEN UnitErr(UnknownByte)
    ELSE IF next_byte(bytes, k + 2) = None THEN UnitErr(MissingByte)
    ELSE IF BitAnd(NotU8(next_byte(bytes, k + 2)), 255) = 237 THEN UnitErr(UnknownByte)
    ELSE IF next_byte(bytes, k + 3) = None THEN UnitErr(MissingByte)
    ELSE IF BitAnd(NotU8(next_byte(bytes, k + 3)), 240) = 176 THEN UnitErr(UnknownByte)
    ELSE IF next_byte(bytes, k + 4) = None THEN UnitErr(MissingByte)
    ELSE IF BitAnd(NotU8(next_byte(bytes, k + 4)), 192) = 128 THEN UnitErr(UnknownByte)
    ELSE from_u32(surrogate_codepoint(next_byte(bytes, k), next_byte(bytes, k + 1),
                                      next_byte(bytes, k + 3), next_byte(bytes, k + 4)),
                  k + 5)

\* the arm of b & 0b1111_0000 == 0b1110_0000 (lines 45-57)
three_byte_unit(bytes, b, k) ==
    IF next_byte(bytes, k) = None THEN UnitErr(MissingByte)
    ELSE IF BitAnd(NotU8(next_byte(bytes, k)), 192) = 128 THEN UnitErr(UnknownByte)
    ELSE IF next_byte(bytes, k + 1) = None THEN UnitErr(MissingByte)
    ELSE IF BitAnd(NotU8(next_byte(bytes, k + 1)), 192) = 128 THEN UnitErr(UnknownByte)
    ELSE from_u32(three_byte_codepoint(b, next_byte(bytes, k), next_byte(bytes, k + 1)),
                  k + 2)

\* the arm of b & 0b1110_0000 == 0b1100_0000 (lines 58-64)
two_byte_unit(bytes, b, k) ==
    IF next_byte(bytes, k) = None THEN UnitErr(MissingByte)
    ELSE IF BitAnd(NotU8(next_byte(bytes, k)), 192) = 128 THEN UnitErr(UnknownByte)
    ELSE from_u32(two_byte_codepoint(b, next_byte(bytes, k)), k + 1)

\* one turn of the loop on the byte b taken at position k - 1 (lines 18-69)
unit(bytes, b, k) ==
    IF b = 237 THEN surrogate_unit(bytes, k)
    ELSE IF BitAnd(b, 240) = 224 THEN three_byte_unit(bytes, b, k)
    ELSE IF BitAnd(b, 224) = 192 THEN two_byte_unit(bytes, b, k)
    ELSE IF BitAnd(b, 128) = 0 THEN UnitOk(b, k)
    ELSE UnitErr(UnknownByte)

\* to_string from position k with the string s built so far (lines 14-75)
RECURSIVE to_string_from(_, _, _)
to_string_after(bytes, s, u) ==
    IF u.status = "Err" THEN RErr(u.err)
    ELSE to_string_from(bytes, u.pos, Append(s, u.char))

to_string_from(bytes, k, s) ==
    IF next_byte(bytes, k) = None THEN [status |-> "Ok", val |-> s]
    ELSE to_string_after(bytes, s, unit(bytes, next_byte(bytes, k), k + 1))

to_string(bytes) == to_string_from(bytes, 0, <<>>)

\* what a turn leaves in the state.  On an error the function returns and
\* the iterator is dropped with it.
ToStringTurn(u) ==
    IF u.status = "Err"
    THEN /\ mutf8_status' = "Err"
         /\ mutf8_error' = u.err
         /\ UNCHANGED <<mutf8_iterator, mutf8_s>>
    ELSE /\ mutf8_iterator' = u.pos
         /\ mutf8_s' = Append(mutf8_s, u.char)
         /\ UNCHANGED <<mutf8_status, mutf8_error>>

\* one turn of the loop that finds a byte
ToStringUnit ==
    /\ mutf8_status = "loop"
    /\ next_byte(mutf8_bytes, mutf8_iterator) # None
    /\ ToStringTurn(unit(mutf8_bytes, next_byte(mutf8_bytes, mutf8_iterator), mutf8_iterator + 1))
    /\ UNCHANGED mutf8_bytes
    /\ UNCHANGED Mutf8Others

\* the turn that finds the iterator empty: break, Ok(s)
ToStringReturn ==
    /\ mutf8_status = "loop"
    /\ next_byte(mutf8_bytes, mutf8_iterator) = None
    /\ mutf8_status' = "Ok"
    /\ UNCHANGED <<mutf8_bytes, mutf8_iterator, mutf8_s, mutf8_error>>
    /\ UNCHANGED Mutf8Others

\* ------------------------------------------------------------------------
\* mutf8::to_string: the byte sequences to_string is run on
\* ------------------------------------------------------------------------

MaxUnits == 2

\* whole units: one, two, three and six bytes long, well-formed and not
Mutf8Units ==
    { <<0>>, <<1>>, <<65>>, <<127>>,
      <<192, 128>>, <<194, 169>>, <<223, 191>>,
      <<224, 128, 128>>, <<226, 130, 172>>, <<239, 191, 191>>,
      <<237, 128, 128>>, <<237, 159, 191>>,
      <<237, 160, 128, 237, 176, 128>>, <<237, 160, 189, 237, 184, 128>>,
      <<237, 175, 191, 237, 191, 191>>,
      <<128>>, <<240>>, <<255>>,
      <<194, 0>>, <<194, 65>>, <<226, 0, 172>>, <<226, 130, 65>>,
      <<194>>, <<226, 130>> }

\* bytes for a continuation position: every value of the two top bits, and
\* the values the checks of the code single out
ContinuationSweep == {0, 18, 64, 65, 80, 127, 128, 160, 176, 191, 192, 237, 255}

TwoByteSweep == {<<b1, b2>> : b1 \in {192, 194, 223}, b2 \in ContinuationSweep}

ThreeByteSweep ==
    {<<b1, b2, b3>> : b1 \in {224, 226, 236, 238, 239},
                      b2 \in ContinuationSweep, b3 \in ContinuationSweep}

SurrogateSweep ==
    {<<237, b2, b3, b4, b5, b6>> :
        b2 \in {160, 175, 128, 159, 80, 95, 176, 0},
        b3 \in {128, 189, 191, 0, 64, 192},
        b4 \in {237, 18, 224, 65, 128},
        b5 \in {176, 184, 191, 160, 64, 79, 0},
        b6 \in {128, 191, 0, 64, 192}}

Prefixes(S) == UNION {{SubSeq(q, 1, n) : n \in 0 .. Len(q)} : q \in S}

Mutf8Inputs ==
    {Flatten(us) : us \in SeqsUpTo(Mutf8Units, MaxUnits)}
    \cup Prefixes(TwoByteSweep \cup ThreeByteSweep \cup SurrogateSweep)

\* ------------------------------------------------------------------------
\* mutf8::to_string: properties.  The byte patterns are written from the
\* format (by division), not with the masks of the code.
\* ------------------------------------------------------------------------

Decoding == mutf8_status = "loop"

\* the byte i places after the iterator's position, None past the end
Ahead(i) ==
    IF mutf8_iterator + i < Len(mutf8_bytes) THEN mutf8_bytes[mutf8_iterator + i + 1] ELSE None

\* 0b10xxxxxx
IsContinuation(b) == b \div 64 = 2

\* 0b110xxxxx
IsTwoByteLead(b) == b \div 32 = 6

\* 0b1110xxxx
IsThreeByteLead(b) == b \div 16 = 14

\* 0xED 0b1010xxxx: the start of a surrogate pair
SurrogateStart == Ahead(0) = 237 /\ Ahead(1) \div 16 = 10

\* a byte is there at place i and is not as the format wants it
Failing(i, wanted) == Ahead(i) # None /\ ~wanted

\* the unit at the iterator has a continuation-position byte that fails
\* its mask check
BadContinuation ==
    \/ /\ IsTwoByteLead(Ahead(0))
       /\ Failing(1, IsContinuation(Ahead(1)))
    \/ /\ IsThreeByteLead(Ahead(0))
       /\ ~SurrogateStart
       /\ \/ Failing(1, IsContinuation(Ahead(1)))
          \/ Failing(2, IsContinuation(Ahead(2)))
    \/ /\ SurrogateStart
       /\ \/ Failing(2, IsContinuation(Ahead(2)))
          \/ Failing(3, Ahead(3) = 237)
          \/ Failing(4, Ahead(4) \div 16 = 11)
          \/ Failing(5, IsContinuation(Ahead(5)))

\* C17 as stated: a unit with a continuation-position byte that fails its
\* mask check (the second byte of a two-byte unit, the second or third of a
\* three-byte unit, the third to sixth of a surrogate pair) makes to_string
\* return an error.
C17_AsClaimed ==
    [][(Decoding /\ BadContinuation) => mutf8_status' = "Err"]_vars

\* What the checks of the code do: `!b2 & 0b1100_0000 == 0b1000_0000` is
\* true exactly for b2 = 0b01xxxxxx, so a two-byte unit is refused for such
\* a second byte and for no other.
TwoByteCheckAsCoded ==
    [][(Decoding /\ IsTwoByteLead(Ahead(0)) /\ Ahead(1) # None)
         => (mutf8_status' = "Err" <=> Ahead(1) \div 64 = 1)]_vars

\* a two-byte unit whose second byte is 0x00 is decoded
BadContinuationDecoded ==
    /\ mutf8_bytes = <<194, 0>>
    /\ mutf8_status = "Ok"
    /\ mutf8_s = <<128>>

\* the unit at the iterator is a well-formed three-byte unit that is not
\* the start of a surrogate pair and encodes a Unicode scalar value
ScalarThreeByte ==
    /\ IsThreeByteLead(Ahead(0))
    /\ Ahead(1) # None /\ IsContinuation(Ahead(1))
    /\ Ahead(2) # None /\ IsContinuation(Ahead(2))
    /\ Ahead(0) = 237 => Ahead(1) \div 32 = 4

ThreeByteValue == (Ahead(0) % 16) * 4096 + (Ahead(1) % 64) * 64 + (Ahead(2) % 64)

ThreeByteDecoded ==
    /\ mutf8_s' = Append(mutf8_s, ThreeByteValue)
    /\ mutf8_iterator' = mutf8_iterator + 3
    /\ mutf8_status' = "loop"

\* C18 as stated: every well-formed three-byte unit that is not the start of
\* a surrogate pair and encodes a Unicode scalar value is decoded to
\* ((b1 & 0x0F) << 12) | ((b2 & 0x3F) << 6) | (b3 & 0x3F), three bytes being
\* consumed; this includes 0xED followed by 0b100xxxxx (U+D000..U+D7FF).
C18_AsClaimed ==
    [][(Decoding /\ ScalarThreeByte) => ThreeByteDecoded]_vars

\* the same for every leading byte but 0xED
ThreeByteButED ==
    [][(Decoding /\ ScalarThreeByte /\ Ahead(0) # 237) => ThreeByteDecoded]_vars

\* U+D7FF (ED 9F BF) at the end of the input is refused
LastBeforeSurrogatesRefused ==
    /\ mutf8_bytes = <<237, 159, 191>>
    /\ mutf8_status = "Err"
    /\ mutf8_error = MissingByte

\* the unit at the iterator is ED 1010xxxx 10xxxxxx ED 1011xxxx 10xxxxxx
SurrogatePair ==
    /\ SurrogateStart
    /\ Ahead(2) # None /\ IsContinuation(Ahead(2))
    /\ Ahead(3) = 237
    /\ Ahead(4) \div 16 = 11
    /\ Ahead(5) # None /\ IsContinuation(Ahead(5))

SurrogatePairValue ==
    65536 + (Ahead(1) % 16) * 65536 + (Ahead(2) % 64) * 1024
          + (Ahead(4) % 16) * 64 + (Ahead(5) % 64)

\* C19: every six-byte unit ED 1010xxxx 10xxxxxx ED 1011xxxx 10xxxxxx is
\* decoded to the one code point 0x10000 + ((b2 & 0x0F) << 16) +
\* ((b3 & 0x3F) << 10) + ((b5 & 0x0F) << 6) + (b6 & 0x3F), six bytes being
\* consumed.
C19_SurrogatePair ==
    [][(Decoding /\ SurrogatePair)
         => /\ mutf8_s' = Append(mutf8_s, SurrogatePairValue)
            /\ mutf8_iterator' = mutf8_iterator + 6
            /\ mutf8_status' = "loop"]_vars

\* ED A0 BD ED B8 80 has been decoded to U+1F600
C19_Witness ==
    /\ mutf8_bytes = <<237, 160, 189, 237, 184, 128>>
    /\ mutf8_status = "Ok"
    /\ mutf8_s = <<128512>>

\* the bytes from place k (1-based) on are single bytes 0x01..0x7F and
\* well-formed two-byte units only
RECURSIVE AsciiAndTwoByte(_, _)
AsciiAndTwoByte(bytes, k) ==
    IF k > Len(bytes) THEN TRUE
    ELSE IF bytes[k] >= 1 /\ bytes[k] <= 127 THEN AsciiAndTwoByte(bytes, k + 1)
    ELSE IF IsTwoByteLead(bytes[k]) /\ k + 1 <= Len(bytes) /\ IsContinuation(bytes[k + 1])
         THEN AsciiAndTwoByte(bytes, k + 2)
    ELSE FALSE

\* one code point per unit of such a sequence
RECURSIVE UnitValues(_, _)
UnitValues(bytes, k) ==
    IF k > Len(bytes) THEN <<>>
    ELSE IF bytes[k] <= 127 THEN <<bytes[k]>> \o UnitValues(bytes, k + 1)
    ELSE <<(bytes[k] % 32) * 64 + (bytes[k + 1] % 64)>> \o UnitValues(bytes, k + 2)

\* C20: on a sequence made only of single bytes 0x01..0x7F and well-formed
\* two-byte units, to_string returns no error and the string it returns has
\* one code point per unit, in order: the byte's value, or
\* ((b1 & 0x1F) << 6) | (b2 & 0x3F).
C20_AsciiAndTwoByte ==
    AsciiAndTwoByte(mutf8_bytes, 1)
        => /\ mutf8_status # "Err"
           /\ mutf8_status = "Ok" => mutf8_s = UnitValues(mutf8_bytes, 1)

\* 'A' then C0 80 has been decoded to 'A' and a single U+0000
C20_Witness ==
    /\ mutf8_bytes = <<65, 192, 128>>
    /\ mutf8_status = "Ok"
    /\ mutf8_s = <<65, 0>>

\* ------------------------------------------------------------------------
\* javaclass: the byte readers of the class-file reader (javaclass-rs/src/
\* lib.rs 121-148).  The reader T is a Cursor or a slice: Read::read copies
\* min(buf.len(), remaining) bytes and moves past them, and never fails, so
\* ClassFileError::Read does not occur.
\*
\* cf_build is the build the program was compiled as: the target's byte
\* order and whether arithmetic overflow is checked (debug profile) or
\* wraps (release profile).
\* ------------------------------------------------------------------------

InvalidMagic == [kind |-> "InvalidMagic"]
InvalidCPType == [kind |-> "InvalidCPType"]
MUtf8Format == [kind |-> "MUtf8Format"]
EndOfFile == [kind |-> "EndOfFile"]
MoreData == [kind |-> "MoreData"]

Builds == [target_endian : {"little", "big"}, overflow_checks : BOOLEAN]

\* an error, and the reader as the failed call leaves it
FErr(e, data) == [status |-> "Err", err |-> e, data |-> data]
FPanic(data) == [status |-> "Panic", err |-> [kind |-> "panic"], data |-> data]

\* a read that asks for more than is left takes all that is left
Drained(data) == Advance(data, Remaining(data))

\* the n bytes at the position
Taken(data, n) == SubSeq(data.buf, data.position + 1, data.position + n)

\* the unsigned value of bytes given most significant first; four bytes give
\* the i32 representative of the u32
BeValue(bs) ==
    IF Len(bs) = 2 THEN bs[1] * 256 + bs[2]
    ELSE AsI8(bs[1]) * 16777216 + bs[2] * 65536 + bs[3] * 256 + bs[4]

\* the bytes of a u16 or u32 (given by its representative), most
\* significant first
BeBytes(x, width) ==
    IF width = 2 THEN <<(x \div 256) % 256, x % 256>>
    ELSE <<(x \div 16777216) % 256, (x \div 65536) % 256, (x \div 256) % 256, x % 256>>

\* std::mem::transmute of a byte array to an integer of the same size: the
\* integer whose bytes in memory, in the target's order, are the array
transmute_bytes(bs, target_endian) ==
    IF target_endian = "big" THEN BeValue(bs) ELSE BeValue(Reverse(bs))

\* the bytes in memory of an integer, in the target's order
memory_of(x, width, target_endian) ==
    IF target_endian = "big" THEN BeBytes(x, width) ELSE Reverse(BeBytes(x, width))

\* mutant: to_be leaves the value in the target's order
to_be_Native(r, width, target_endian) == r

\* r.to_be(): the bytes are swapped on a little-endian target
to_be(r, width, target_endian) ==
    IF target_endian = "big" THEN r ELSE BeValue(Reverse(BeBytes(r, width)))

\* lines 121-128
javaclass_read_u8(data) ==
    IF Remaining(data) < 1
    THEN FErr(EndOfFile, data)
    ELSE ROk(ByteAt(data, 0), Advance(data, 1))

\* lines 130-138
javaclass_read_u16(data) ==
    IF Remaining(data) < 2
    THEN FErr(EndOfFile, Drained(data))
    ELSE ROk(to_be(transmute_bytes(Taken(data, 2), cf_build.target_endian),
                   2, cf_build.target_endian),
             Advance(data, 2))

\* lines 140-148
javaclass_read_u32(data) ==
    IF Remaining(data) < 4
    THEN FErr(EndOfFile, Drained(data))
    ELSE ROk(to_be(transmute_bytes(Taken(data, 4), cf_build.target_endian),
                   4, cf_build.target_endian),
             Advance(data, 4))

\* (0..n).map(|_| read_u8(data)).collect(): n bytes, or EndOfFile once the
\* input is used up.  n is a u16, or the representative of a u32 (negative
\* from 2^31 on, which is more than any input has)
read_bytes(data, n) ==
    IF n < 0 \/ Remaining(data) < n
    THEN FErr(EndOfFile, Drained(data))
    ELSE ROk(Taken(data, n), Advance(data, n))

\* two u16 one after the other, as the pair of them
u16_pair_second(a, r) ==
    IF r.status # "Ok" THEN r ELSE ROk(<<a, r.val>>, r.data)

u16_pair_first(r) ==
    IF r.status # "Ok" THEN r ELSE u16_pair_second(r.val, javaclass_read_u16(r.data))

read_u16_pair(data) == u16_pair_first(javaclass_read_u16(data))

\* two u32 one after the other, as the pair of them
u32_pair_second(a, r) ==
    IF r.status # "Ok" THEN r ELSE ROk(<<a, r.val>>, r.data)

u32_pair_first(r) ==
    IF r.status # "Ok" THEN r ELSE u32_pair_second(r.val, javaclass_read_u32(r.data))

read_u32_pair(data) == u32_pair_first(javaclass_read_u32(data))

\* ------------------------------------------------------------------------
\* javaclass: read_constant_pool (javaclass-rs/src/lib.rs 319-399).  The
\* HashMap<u16, ConstantPoolInfo> is the function from the keys inserted to
\* their entries.  An i64 or f64 is carried as the two 32-bit halves of its
\* bit pattern, [upper, lower]; an i32 or f32 as the representative of its
\* bit pattern.
\* ------------------------------------------------------------------------

\* the 64-bit value whose eight bytes, most significant first, are be
wide_of_be(be) == [upper |-> BeValue(SubSeq(be, 1, 4)), lower |-> BeValue(SubSeq(be, 5, 8))]

\* std::mem::transmute of [u32; 2] to i64 or f64: the array's first element
\* lies at the lower address
transmute_words(words, target_endian) ==
    IF target_endian = "big"
    THEN wide_of_be(memory_of(words[1], 4, target_endian)
                      \o memory_of(words[2], 4, target_endian))
    ELSE wide_of_be(Reverse(memory_of(words[1], 4, target_endian)
                              \o memory_of(words[2], 4, target_endian)))

\* 7, lines 326-328
class_entry(r) ==
    IF r.status # "Ok" THEN r
    ELSE ROk([tag |-> "Class", name_index |-> r.val], r.data)

\* 9, 10 and 11, lines 329-340; p is the pair of indices read
member_entry(tag, p) ==
    IF p.status # "Ok" THEN p
    ELSE ROk([tag |-> tag, class_index |-> p.val[1], name_and_type_index |-> p.val[2]], p.data)

\* 8, lines 341-343
string_entry(r) ==
    IF r.status # "Ok" THEN r
    ELSE ROk([tag |-> "String", string_index |-> r.val], r.data)

\* 3 and 4, lines 344-349: transmute of a u32 keeps the bit pattern
word_entry(tag, r) ==
    IF r.status # "Ok" THEN r
    ELSE ROk([tag |-> tag, data |-> r.val], r.data)

\* 5 and 6, lines 350-363; p is the pair <<high, low>> read
wide_entry(tag, p) ==
    IF p.status # "Ok" THEN p
    ELSE ROk([tag |-> tag,
              data |-> transmute_words(<<p.val[2], p.val[1]>>, cf_build.target_endian)],
             p.data)

\* 12, lines 364-367
name_and_type_entry(p) ==
    IF p.status # "Ok" THEN p
    ELSE ROk([tag |-> "NameAndType", name_index |-> p.val[1], descriptor_index |-> p.val[2]],
             p.data)

\* 1, lines 368-376
utf8_decoded(length, r, s) ==
    IF s.status # "Ok" THEN FErr(MUtf8Format, r.data)
    ELSE ROk([tag |-> "Utf8", length |-> length, string |-> s.val], r.data)

utf8_bytes(length, r) ==
    IF r.status # "Ok" THEN r ELSE utf8_decoded(length, r, to_string(r.val))

utf8_entry(r) ==
    IF r.status # "Ok" THEN r ELSE utf8_bytes(r.val, read_bytes(r.data, r.val))

\* 15, lines 377-380
method_handle_index(kind, r) ==
    IF r.status # "Ok" THEN r
    ELSE ROk([tag |-> "MethodHandle", reference_kind |-> kind, reference_index |-> r.val],
             r.data)

method_handle_entry(r) ==
    IF r.status # "Ok" THEN r ELSE method_handle_index(r.val, javaclass_read_u16(r.data))

\* 16, lines 381-383
method_type_entry(r) ==
    IF r.status # "Ok" THEN r
    ELSE ROk([tag |-> "MethodType", descriptor_index |-> r.val], r.data)

\* 18, lines 384-387
invoke_dynamic_entry(p) ==
    IF p.status # "Ok" THEN p
    ELSE ROk([tag |-> "InvokeDynamic", bootstrap_method_attr_index |-> p.val[1],
              name_and_type_index |-> p.val[2]], p.data)

\* the match on cp_type, lines 325-389
cp_entry(cp_type, data) ==
    CASE cp_type = 7 -> class_entry(javaclass_read_u16(data))
      [] cp_type = 9 -> member_entry("FieldRef", read_u16_pair(data))
      [] cp_type = 10 -> member_entry("MethodRef", read_u16_pair(data))
      [] cp_type = 11 -> member_entry("InterfaceMethodRef", read_u16_pair(data))
      [] cp_type = 8 -> string_entry(javaclass_read_u16(data))
      [] cp_type = 3 -> word_entry("Integer", javaclass_read_u32(data))
      [] cp_type = 4 -> word_entry("Float", javaclass_read_u32(data))
      [] cp_type = 5 -> wide_entry("Long", read_u32_pair(data))
      [] cp_type = 6 -> wide_entry("Double", read_u32_pair(data))
      [] cp_type = 12 -> name_and_type_entry(read_u16_pair(data))
      [] cp_type = 1 -> utf8_entry(javaclass_read_u16(data))
      [] cp_type = 15 -> method_handle_entry(javaclass_read_u8(data))
      [] cp_type = 16 -> method_type_entry(javaclass_read_u16(data))
      [] cp_type = 18 -> invoke_dynamic_entry(read_u16_pair(data))
      [] OTHER -> FErr(InvalidCPType, data)

\* mutant: the index moves on by one after every entry
cp_next_index_ByOne(i, cp_type, overflow_checks) == [panic |-> FALSE, val |-> i + 1]

\* lines 391-394 on the u16 i (i < constant_pool_count, so the first
\* `i += 1` cannot overflow; the second does at 65535)
cp_next_index(i, cp_type, overflow_checks) ==
    IF cp_type # 5 /\ cp_type # 6 THEN [panic |-> FALSE, val |-> i + 1]
    ELSE IF i + 1 = 65535 THEN [panic |-> overflow_checks, val |-> 0]
    ELSE [panic |-> FALSE, val |-> i + 2]

\* the loop's state is [constant_pool_count, i, constant_pool].
\* lines 390-394: insert replaces what the key held
cp_advanced(st, e, n) ==
    IF n.panic THEN FPanic(e.data)
    ELSE ROk([st EXCEPT !.constant_pool = (st.i :> e.val) @@ @, !.i = n.val], e.data)

cp_inserted(st, cp_type, e) ==
    IF e.status # "Ok" THEN e
    ELSE cp_advanced(st, e, cp_next_index(st.i, cp_type, cf_build.overflow_checks))

cp_typed(st, r) ==
    IF r.status # "Ok" THEN r ELSE cp_inserted(st, r.val, cp_entry(r.val, r.data))

\* one turn of the loop, lines 324-394
cp_turn(st, data) == cp_typed(st, javaclass_read_u8(data))

\* lines 320-322
cp_counted(r) ==
    IF r.status # "Ok" THEN r
    ELSE ROk([constant_pool_count |-> r.val, i |-> 1, constant_pool |-> <<>>], r.data)

read_constant_pool_count(data) == cp_counted(javaclass_read_u16(data))

\* lines 323-398
RECURSIVE cp_loop(_, _)
cp_loop_after(t) ==
    IF t.status # "Ok" THEN t ELSE cp_loop(t.val, t.data)

cp_loop(st, data) ==
    IF st.i < st.constant_pool_count
    THEN cp_loop_after(cp_turn(st, data))
    ELSE ROk(st.constant_pool, data)

cp_started(c) ==
    IF c.status # "Ok" THEN c ELSE cp_loop(c.val, c.data)

read_constant_pool(data) == cp_started(read_constant_pool_count(data))

\* ------------------------------------------------------------------------
\* javaclass: access flags, interfaces, attributes, fields and methods
\* (javaclass-rs/src/lib.rs 413-647)
\* ------------------------------------------------------------------------

\* `flags & mask > 0`
Flag(flags, mask) == BitAnd(flags, mask) > 0

\* lines 413-425
class_access_flags(r) ==
    IF r.status # "Ok" THEN r
    ELSE ROk([acc_public |-> Flag(r.val, 1), acc_final |-> Flag(r.val, 16),
              acc_super |-> Flag(r.val, 32), acc_interface |-> Flag(r.val, 512),
              acc_abstract |-> Flag(r.val, 1024), acc_synthetic |-> Flag(r.val, 4096),
              acc_annotation |-> Flag(r.val, 8192), acc_enum |-> Flag(r.val, 16384)],
             r.data)

read_class_access_flags(data) == class_access_flags(javaclass_read_u16(data))

\* lines 540-553
field_access_flags(r) ==
    IF r.status # "Ok" THEN r
    ELSE ROk([acc_public |-> Flag(r.val, 1), acc_private |-> Flag(r.val, 2),
              acc_protected |-> Flag(r.val, 4), acc_static |-> Flag(r.val, 8),
              acc_final |-> Flag(r.val, 16), acc_volatile |-> Flag(r.val, 64),
              acc_transient |-> Flag(r.val, 128), acc_synthetic |-> Flag(r.val, 4096),
              acc_enum |-> Flag(r.val, 16384)],
             r.data)

read_field_access_flags(data) == field_access_flags(javaclass_read_u16(data))

\* lines 601-617
method_access_flags(r) ==
    IF r.status # "Ok" THEN r
    ELSE ROk([acc_public |-> Flag(r.val, 1), acc_private |-> Flag(r.val, 2),
              acc_protected |-> Flag(r.val, 4), acc_static |-> Flag(r.val, 8),
              acc_final |-> Flag(r.val, 16), acc_synchronized |-> Flag(r.val, 32),
              acc_bridge |-> Flag(r.val, 64), acc_varargs |-> Flag(r.val, 128),
              acc_native |-> Flag(r.val, 256), acc_abstract |-> Flag(r.val, 1024),
              acc_strict |-> Flag(r.val, 2048), acc_synthetic |-> Flag(r.val, 4096)],
             r.data)

read_method_access_flags(data) == method_access_flags(javaclass_read_u16(data))

\* (0..n).map(|_| read_u16(data)).collect(): n u16, up to the first error
RECURSIVE read_u16s(_, _, _)
u16s_after(r, n, acc) ==
    IF r.status # "Ok" THEN r ELSE read_u16s(r.data, n - 1, Append(acc, r.val))

read_u16s(data, n, acc) ==
    IF n = 0 THEN ROk(acc, data) ELSE u16s_after(javaclass_read_u16(data), n, acc)

\* lines 427-434
interfaces_counted(r) ==
    IF r.status # "Ok" THEN r ELSE read_u16s(r.data, r.val, <<>>)

read_interfaces(data) == interfaces_counted(javaclass_read_u16(data))

\* the attribute names the reader knows, as the strings to_string gives
ConstantValueName == <<67, 111, 110, 115, 116, 97, 110, 116, 86, 97, 108, 117, 101>>
SourceFileName == <<83, 111, 117, 114, 99, 101, 70, 105, 108, 101>>
CodeName == <<67, 111, 100, 101>>

\* lines 495-500: the four u16 of an ExceptionTableInfo
exception_entry_second(a, p) ==
    IF p.status # "Ok" THEN p
    ELSE ROk([start_pc |-> a[1], end_pc |-> a[2],
              handler_pc |-> p.val[1], catch_type |-> p.val[2]], p.data)

exception_entry_first(p) ==
    IF p.status # "Ok" THEN p ELSE exception_entry_second(p.val, read_u16_pair(p.data))

read_exception_entry(data) == exception_entry_first(read_u16_pair(data))

\* lines 494-501
RECURSIVE read_exception_table(_, _, _)
exception_table_after(e, n, acc) ==
    IF e.status # "Ok" THEN e ELSE read_exception_table(e.data, n - 1, Append(acc, e.val))

read_exception_table(data, n, acc) ==
    IF n = 0 THEN ROk(acc, data) ELSE exception_table_after(read_exception_entry(data), n, acc)

\* lines 478-483
constant_value_attribute(r) ==
    IF r.status # "Ok" THEN r
    ELSE ROk([attribute |-> "ConstantValue", constant_value_index |-> r.val], r.data)

source_file_attribute(r) ==
    IF r.status # "Ok" THEN r
    ELSE ROk([attribute |-> "SourceFile", sourcefile_index |-> r.val], r.data)

\* lines 511-520
raw_attribute(attribute_name, bytes_result) ==
    IF bytes_result.status # "Ok" THEN bytes_result
    ELSE ROk([attribute |-> "Raw", attribute_name |-> attribute_name,
              info |-> bytes_result.val], bytes_result.data)

RECURSIVE read_attributes(_, _)

\* lines 503-509: code_result is looked at only here
code_attribute(limits, code_result, table, inner) ==
    IF inner.status # "Ok" THEN inner
    ELSE IF code_result.status # "Ok" THEN FErr(code_result.err, inner.data)
    ELSE ROk([attribute |-> "Code", max_stack |-> limits[1], max_locals |-> limits[2],
              code |-> code_result.val, exception_table |-> table,
              attributes |-> inner.val], inner.data)

\* line 502
code_table(limits, code_result, t, pool) ==
    IF t.status # "Ok" THEN t
    ELSE code_attribute(limits, code_result, t.val, read_attributes(t.data, pool))

\* lines 492-501
code_table_length(limits, code_result, n, pool) ==
    IF n.status # "Ok" THEN n
    ELSE code_table(limits, code_result, read_exception_table(n.data, n.val, <<>>),
                    pool)

\* lines 488-492: the reader goes on from where the code bytes left it,
\* whether they were all there or not
code_bytes(limits, code_result, pool) ==
    code_table_length(limits, code_result, javaclass_read_u16(code_result.data),
                      pool)

\* lines 487-491
code_length(limits, n, pool) ==
    IF n.status # "Ok" THEN n
    ELSE code_bytes(limits, read_bytes(n.data, n.val), pool)

\* lines 485-486
code_limits(p, pool) ==
    IF p.status # "Ok" THEN p
    ELSE code_length(p.val, javaclass_read_u32(p.data), pool)

\* the match on the name, lines 477-521
attribute_body(attribute_name, attribute_length, pool) ==
    IF attribute_length.status # "Ok" THEN attribute_length
    ELSE IF attribute_name = ConstantValueName
         THEN constant_value_attribute(javaclass_read_u16(attribute_length.data))
    ELSE IF attribute_name = SourceFileName
         THEN source_file_attribute(javaclass_read_u16(attribute_length.data))
    ELSE IF attribute_name = CodeName
         THEN code_limits(read_u16_pair(attribute_length.data), pool)
    ELSE raw_attribute(attribute_name,
                       read_bytes(attribute_length.data, attribute_length.val))

\* lines 474-475
attribute_named(data, attribute_name, pool) ==
    IF attribute_name.status # "Ok" THEN FErr(attribute_name.err, data)
    ELSE attribute_body(attribute_name.val, javaclass_read_u32(data), pool)

\* lines 473-474
attribute_indexed(r, pool) ==
    IF r.status # "Ok" THEN r
    ELSE attribute_named(r.data, get_utf8_entry(pool, r.val), pool)

\* one turn of the loop of read_attributes, lines 473-522
read_attribute(data, pool) ==
    attribute_indexed(javaclass_read_u16(data), pool)

RECURSIVE attributes_loop(_, _, _, _)
attributes_after(a, pool, n, acc) ==
    IF a.status # "Ok" THEN a
    ELSE attributes_loop(a.data, pool, n - 1, Append(acc, a.val))

attributes_loop(data, pool, n, acc) ==
    IF n = 0 THEN ROk(acc, data)
    ELSE attributes_after(read_attribute(data, pool), pool, n, acc)

attributes_counted(r, pool) ==
    IF r.status # "Ok" THEN r ELSE attributes_loop(r.data, pool, r.val, <<>>)

\* lines 465-525
read_attributes(data, pool) ==
    attributes_counted(javaclass_read_u16(data), pool)

\* a FieldInfo or MethodInfo, lines 570-579 and 634-643
member_attributes(access_flags, p, a) ==
    IF a.status # "Ok" THEN a
    ELSE ROk([access_flags |-> access_flags, name_index |-> p[1],
              descriptor_index |-> p[2], attributes |-> a.val], a.data)

member_indices(access_flags, p, pool) ==
    IF p.status # "Ok" THEN p
    ELSE member_attributes(access_flags, p.val, read_attributes(p.data, pool))

member_info(access_flags, pool) ==
    IF access_flags.status # "Ok" THEN access_flags
    ELSE member_indices(access_flags.val, read_u16_pair(access_flags.data), pool)

\* lines 563-583
RECURSIVE fields_loop(_, _, _, _)
fields_after(f, pool, n, acc) ==
    IF f.status # "Ok" THEN f
    ELSE fields_loop(f.data, pool, n - 1, Append(acc, f.val))

fields_loop(data, pool, n, acc) ==
    IF n = 0 THEN ROk(acc, data)
    ELSE fields_after(member_info(read_field_access_flags(data), pool),
                      pool, n, acc)

fields_counted(r, pool) ==
    IF r.status # "Ok" THEN r ELSE fields_loop(r.data, pool, r.val, <<>>)

read_fields(data, pool) == fields_counted(javaclass_read_u16(data), pool)

\* lines 627-647
RECURSIVE methods_loop(_, _, _, _)
methods_after(f, pool, n, acc) ==
    IF f.status # "Ok" THEN f
    ELSE methods_loop(f.data, pool, n - 1, Append(acc, f.val))

methods_loop(data, pool, n, acc) ==
    IF n = 0 THEN ROk(acc, data)
    ELSE methods_after(member_info(read_method_access_flags(data), pool),
                       pool, n, acc)

methods_counted(r, pool) ==
    IF r.status # "Ok" THEN r ELSE methods_loop(r.data, pool, r.val, <<>>)

read_methods(data, pool) == methods_counted(javaclass_read_u16(data), pool)

\* ------------------------------------------------------------------------
\* javaclass: read_classfile (javaclass-rs/src/lib.rs 663-698)
\* ------------------------------------------------------------------------

\* 0xcafebabe as a u32
Magic == -889275714

\* the ClassFile before anything has been read into it
UnreadClass ==
    [minor_version |-> None, major_version |-> None, constant_pool |-> <<>>,
     access_flags |-> None, this_class |-> None, super_class |-> None,
     interfaces |-> <<>>, fields |-> <<>>, methods |-> <<>>, attributes |-> <<>>]

\* the loop of read_constant_pool before it has been entered
UnreadPool == [constant_pool_count |-> 0, i |-> 1, constant_pool |-> <<>>]

\* lines 664-666
magic_checked(c, r) ==
    IF r.status # "Ok" THEN r
    ELSE IF r.val # Magic THEN FErr(InvalidMagic, r.data)
    ELSE ROk(c, r.data)

read_magic(c, data) == magic_checked(c, javaclass_read_u32(data))

\* lines 667-668
with_versions(c, p) ==
    IF p.status # "Ok" THEN p
    ELSE ROk([c EXCEPT !.minor_version = p.val[1], !.major_version = p.val[2]], p.data)

read_versions(c, data) == with_versions(c, read_u16_pair(data))

\* line 670
with_constant_pool(c, r) ==
    IF r.status # "Ok" THEN r ELSE ROk([c EXCEPT !.constant_pool = r.val], r.data)

\* lines 672-675
with_class_indices(c, access_flags, p) ==
    IF p.status # "Ok" THEN p
    ELSE ROk([c EXCEPT !.access_flags = access_flags,
                       !.this_class = p.val[1], !.super_class = p.val[2]], p.data)

with_class_flags(c, f) ==
    IF f.status # "Ok" THEN f ELSE with_class_indices(c, f.val, read_u16_pair(f.data))

read_class_info(c, data) == with_class_flags(c, read_class_access_flags(data))

\* line 677
with_interfaces(c, r) ==
    IF r.status # "Ok" THEN r ELSE ROk([c EXCEPT !.interfaces = r.val], r.data)

\* line 678
with_fields(c, r) ==
    IF r.status # "Ok" THEN r ELSE ROk([c EXCEPT !.fields = r.val], r.data)

\* line 679
with_methods(c, r) ==
    IF r.status # "Ok" THEN r ELSE ROk([c EXCEPT !.methods = r.val], r.data)

\* line 680
with_attributes(c, r) ==
    IF r.status # "Ok" THEN r ELSE ROk([c EXCEPT !.attributes = r.val], r.data)

\* mutant: what is left of the input is not looked at
classfile_end_Unchecked(c, r) == ROk(c, r.data)

\* lines 682-697; r is what read_u8 returned
classfile_end(c, r) ==
    IF r.status = "Ok" THEN FErr(MoreData, r.data) ELSE ROk(c, r.data)

\* read_classfile as the one function it is, each step taking what the
\* step before it returned
after_attributes(r) ==
    IF r.status # "Ok" THEN r ELSE classfile_end(r.val, javaclass_read_u8(r.data))

after_methods(r) ==
    IF r.status # "Ok" THEN r
    ELSE after_attributes(with_attributes(r.val, read_attributes(r.data, r.val.constant_pool)))

after_fields(r) ==
    IF r.status # "Ok" THEN r
    ELSE after_methods(with_methods(r.val, read_methods(r.data, r.val.constant_pool)))

after_interfaces(r) ==
    IF r.status # "Ok" THEN r
    ELSE after_fields(with_fields(r.val, read_fields(r.data, r.val.constant_pool)))

after_class_info(r) ==
    IF r.status # "Ok" THEN r
    ELSE after_interfaces(with_interfaces(r.val, read_interfaces(r.data)))

after_constant_pool(r) ==
    IF r.status # "Ok" THEN r ELSE after_class_info(read_class_info(r.val, r.data))

after_versions(r) ==
    IF r.status # "Ok" THEN r
    ELSE after_constant_pool(with_constant_pool(r.val, read_constant_pool(r.data)))

after_magic(r) ==
    IF r.status # "Ok" THEN r ELSE after_versions(read_versions(r.val, r.data))

read_classfile(data) == after_magic(read_magic(UnreadClass, data))

\* what a step of read_classfile that returned r leaves in the state: the
\* ClassFile so far and the next step, or the error returned
Stepped(r, next) ==
    /\ cf_data' = r.data
    /\ IF r.status = "Ok"
       THEN /\ cf_class' = r.val
            /\ cf_status' = next
            /\ cf_error' = cf_error
       ELSE /\ cf_class' = cf_class
            /\ cf_status' = r.status
            /\ cf_error' = r.err
    /\ UNCHANGED <<cf_build, cf_pool>>
    /\ UNCHANGED CfOthers

ReadMagic ==
    /\ cf_status = "magic"
    /\ Stepped(read_magic(cf_class, cf_data), "version")

ReadVersion ==
    /\ cf_status = "version"
    /\ Stepped(read_versions(cf_class, cf_data), "constant_pool_count")

\* what a step of read_constant_pool that returned r leaves in the state
PoolStepped(r) ==
    /\ cf_data' = r.data
    /\ IF r.status = "Ok"
       THEN /\ cf_pool' = r.val
            /\ cf_status' = "constant_pool"
            /\ cf_error' = cf_error
       ELSE /\ cf_pool' = cf_pool
            /\ cf_status' = r.status
            /\ cf_error' = r.err
    /\ UNCHANGED <<cf_build, cf_class>>
    /\ UNCHANGED CfOthers

ReadConstantPoolCount ==
    /\ cf_status = "constant_pool_count"
    /\ PoolStepped(read_constant_pool_count(cf_data))

\* one turn of the loop of read_constant_pool
ReadConstantPoolEntry ==
    /\ cf_status = "constant_pool"
    /\ cf_pool.i < cf_pool.constant_pool_count
    /\ PoolStepped(cp_turn(cf_pool, cf_data))

\* the loop of read_constant_pool is left and the pool returned
ReadConstantPoolReturn ==
    /\ cf_status = "constant_pool"
    /\ ~(cf_pool.i < cf_pool.constant_pool_count)
    /\ Stepped(with_constant_pool(cf_class, ROk(cf_pool.constant_pool, cf_data)), "class_info")

ReadClassInfo ==
    /\ cf_status = "class_info"
    /\ Stepped(read_class_info(cf_class, cf_data), "interfaces")

ReadInterfaces ==
    /\ cf_status = "interfaces"
    /\ Stepped(with_interfaces(cf_class, read_interfaces(cf_data)), "fields")

ReadFields ==
    /\ cf_status = "fields"
    /\ Stepped(with_fields(cf_class, read_fields(cf_data, cf_class.constant_pool)), "methods")

ReadMethods ==
    /\ cf_status = "methods"
    /\ Stepped(with_methods(cf_class, read_methods(cf_data, cf_class.constant_pool)),
               "attributes")

ReadAttributes ==
    /\ cf_status = "attributes"
    /\ Stepped(with_attributes(cf_class, read_attributes(cf_data, cf_class.constant_pool)),
               "end")

ReadEnd ==
    /\ cf_status = "end"
    /\ Stepped(classfile_end(cf_class, javaclass_read_u8(cf_data)), "Ok")

\* ------------------------------------------------------------------------
\* javaclass: the inputs read_classfile is run on
\* ------------------------------------------------------------------------

MaxEntries == 2

\* a u16 and a (small) u32 as they stand in a class file
U2(n) == <<n \div 256, n % 256>>
U4(n) == <<0, 0>> \o U2(n)

\* a Utf8 entry for a string of ASCII chars
Utf8Bytes(string) == <<1>> \o U2(Len(string)) \o string

MagicBytes == <<202, 254, 186, 190>>
VersionBytes == <<0, 0, 0, 52>>

\* no flags but public and super, this_class 0, super_class 0, and no
\* interfaces, fields, methods or attributes
MinimalTail == <<0, 33, 0, 0, 0, 0>> \o U2(0) \o U2(0) \o U2(0) \o U2(0)

MinimalFile == MagicBytes \o VersionBytes \o U2(1) \o MinimalTail

\* 1 "Code", 2 "ConstantValue", 3 "SourceFile", 4 "X", 5 Long, 7 Integer,
\* 8 Class{4}
FullPool ==
    U2(9) \o Utf8Bytes(CodeName) \o Utf8Bytes(ConstantValueName)
          \o Utf8Bytes(SourceFileName) \o Utf8Bytes(<<88>>)
          \o <<5, 0, 0, 0, 1, 0, 0, 0, 2>> \o <<3, 0, 0, 0, 7>> \o <<7, 0, 4>>

\* one interface; one field with a ConstantValue; one method with a Code
\* attribute (one byte of code, one handler, one Raw attribute "X" of two
\* bytes); the class attribute SourceFile
FullTail ==
    <<0, 33>> \o U2(8) \o U2(0)
    \o U2(1) \o U2(8)
    \o U2(1) \o <<0, 25>> \o U2(4) \o U2(4)
             \o U2(1) \o U2(2) \o U4(2) \o U2(7)
    \o U2(1) \o <<0, 1>> \o U2(4) \o U2(4)
             \o U2(1) \o U2(1) \o U4(21) \o U2(1) \o U2(1) \o U4(1) \o <<177>>
                      \o U2(1) \o U2(0) \o U2(1) \o U2(0) \o U2(8)
                      \o U2(1) \o U2(4) \o U4(2) \o <<9, 9>>
    \o U2(1) \o U2(3) \o U4(2) \o U2(4)

FullFile == MagicBytes \o VersionBytes \o FullPool \o FullTail

\* constant pool entries that are put in a row: two Long, a Double, an
\* Integer, a Utf8 and a Class
EntrySweep ==
    { <<5, 0, 0, 0, 1, 0, 0, 0, 2>>, <<5, 128, 0, 0, 0, 255, 255, 255, 255>>,
      <<6, 64, 9, 33, 251, 84, 68, 45, 24>>, <<3, 255, 255, 255, 254>>,
      <<1, 0, 1, 65>>, <<7, 0, 1>> }

\* one entry of every other tag, a Utf8 that is not modified UTF-8, and a
\* tag that does not exist
OtherEntries ==
    { <<9, 0, 1, 0, 2>>, <<10, 0, 1, 0, 2>>, <<11, 0, 1, 0, 2>>, <<8, 0, 1>>,
      <<4, 63, 128, 0, 0>>, <<12, 0, 1, 0, 2>>, <<15, 1, 0, 2>>, <<16, 0, 1>>,
      <<18, 0, 1, 0, 2>>, <<1, 0, 1, 128>>, <<2>> }

\* the pool slots a row of entries takes
Slots(entries) ==
    Len(entries) + Cardinality({k \in DOMAIN entries : entries[k][1] \in {5, 6}})

EntryRows == SeqsUpTo(EntrySweep, MaxEntries) \cup {<<e>> : e \in OtherEntries}

\* a class file around a row of entries, with constant_pool_count as the
\* format wants it, or one more
PoolFiles ==
    {MagicBytes \o VersionBytes \o U2(Slots(row) + 1 + more) \o Flatten(row) \o MinimalTail :
        row \in EntryRows, more \in {0, 1}}

BadMagics ==
    { <<203, 254, 186, 190>>, <<202, 255, 186, 190>>, <<202, 254, 187, 190>>,
      <<202, 254, 186, 191>>, <<190, 186, 254, 202>>, <<0, 0, 0, 0>>,
      <<255, 255, 255, 255>> }

BadMagicFiles ==
    {m \o rest : m \in BadMagics,
                 rest \in {<<>>, <<0>>, VersionBytes \o U2(1) \o MinimalTail}}

\* bytes that follow a class file
ExtraBytes == {0, 255}

ClassFileInputs ==
    Prefixes({MinimalFile, FullFile})
    \cup PoolFiles
    \cup BadMagicFiles
    \cup {f \o <<b>> : f \in {MinimalFile, FullFile} \cup PoolFiles, b \in ExtraBytes}

\* ------------------------------------------------------------------------
\* javaclass: properties of read_classfile
\* ------------------------------------------------------------------------

\* the first n bytes of the input (n <= its length)
InputHead(n) == SubSeq(cf_data.buf, 1, n)

\* C12: on every input of at least four bytes whose first four bytes are not
\* CA FE BA BE, read_classfile returns InvalidMagic, and it has consumed
\* exactly those four bytes.
C12_InvalidMagic ==
    [][(cf_status = "magic" /\ Len(cf_data.buf) >= 4 /\ InputHead(4) # MagicBytes)
         => /\ cf_status' = "Err"
            /\ cf_error' = InvalidMagic
            /\ cf_data'.position = 4]_vars

\* the magic number with its bytes in the opposite order, and more input
\* after it, has been refused
C12_Witness ==
    /\ Len(cf_data.buf) > 4
    /\ InputHead(4) = <<190, 186, 254, 202>>
    /\ cf_status = "Err"
    /\ cf_error = InvalidMagic
    /\ cf_data.position = 4

\* read_classfile has returned
ClassFileReturned == cf_status \in {"Ok", "Err", "Panic"}

\* read_classfile run from the start on the bytes bs, by the same build
ReadOf(bs) == read_classfile([buf |-> bs, position |-> 0])

\* the input without its last byte
AllButLast == SubSeq(cf_data.buf, 1, Len(cf_data.buf) - 1)

\* C13: a read that succeeds ends with the reader at the end of the input,
\* and the same input followed by one more byte fails with MoreData: seen
\* from the input that succeeds (first conjunct) and from the input that is
\* one byte longer (second conjunct).
C13_TrailingByte ==
    /\ cf_status = "Ok"
         => /\ cf_data.position = Len(cf_data.buf)
            /\ \A b \in ExtraBytes :
                  /\ ReadOf(cf_data.buf \o <<b>>).status = "Err"
                  /\ ReadOf(cf_data.buf \o <<b>>).err = MoreData
    /\ (ClassFileReturned /\ Len(cf_data.buf) >= 1 /\ ReadOf(AllButLast).status = "Ok")
         => /\ cf_status = "Err"
            /\ cf_error = MoreData

\* the class file with fields, methods and attributes, which is read with
\* success, has been refused with one byte after it
C13_Witness ==
    /\ cf_data.buf = FullFile \o <<255>>
    /\ ReadOf(FullFile).status = "Ok"
    /\ cf_status = "Err"
    /\ cf_error = MoreData

\* the entry the pool m holds at k is a Long or a Double
IsWide(m, k) == m[k].tag \in {"Long", "Double"}

\* in the pool that read_constant_pool returned, the index after a Long or
\* Double holds no entry and get_entry refuses it
WideSlotsEmpty ==
    \A k \in DOMAIN cf_class.constant_pool :
        IsWide(cf_class.constant_pool, k)
            => /\ k + 1 \notin DOMAIN cf_class.constant_pool
               /\ get_entry(cf_class.constant_pool, k + 1) = RErr(InvalidCPEntry)

\* a turn of the loop that reads an entry stores it at the index i, and
\* nothing else; the index of the next entry is i + 2 after a Long or
\* Double and i + 1 after any other entry
EntryStored ==
    (cf_status = "constant_pool" /\ cf_pool' # cf_pool)
        => /\ DOMAIN cf_pool'.constant_pool = DOMAIN cf_pool.constant_pool \cup {cf_pool.i}
           /\ \A k \in DOMAIN cf_pool.constant_pool \ {cf_pool.i} :
                 cf_pool'.constant_pool[k] = cf_pool.constant_pool[k]
           /\ cf_pool'.i = IF IsWide(cf_pool'.constant_pool, cf_pool.i)
                           THEN cf_pool.i + 2 ELSE cf_pool.i + 1

\* C14: after read_constant_pool has succeeded, for every index k that holds
\* a Long or Double no entry is stored at k + 1 and get_entry(k + 1) returns
\* InvalidCPEntry; the entry read after a Long or Double at k is stored at
\* k + 2.
C14_SlotReserved == []WideSlotsEmpty /\ [][EntryStored]_vars

\* a pool with a Long at 1, nothing at 2 and the next entry at 3 has been
\* returned
C14_Witness ==
    /\ cf_status = "Ok"
    /\ DOMAIN cf_class.constant_pool = {1, 3}
    /\ cf_class.constant_pool[1].tag = "Long"
    /\ get_entry(cf_class.constant_pool, 2) = RErr(InvalidCPEntry)

\* the turn of the loop at hand reads a Long whose nine bytes are all there
ReadsLong ==
    /\ cf_status = "constant_pool"
    /\ cf_pool.i < cf_pool.constant_pool_count
    /\ Remaining(cf_data) >= 9
    /\ ByteAt(cf_data, 0) = 5

\* the big-endian u32 in the four payload bytes from the k-th on (as its
\* representative)
PayloadWord(k) ==
    (IF ByteAt(cf_data, k) >= 128 THEN ByteAt(cf_data, k) - 256 ELSE ByteAt(cf_data, k))
        * 16777216
    + ByteAt(cf_data, k + 1) * 65536 + ByteAt(cf_data, k + 2) * 256 + ByteAt(cf_data, k + 3)

\* the entry stored is the Long (high << 32) | low, high being the first
\* four payload bytes and low the last four
LongStored ==
    cf_pool'.constant_pool[cf_pool.i]
        = [tag |-> "Long", data |-> [upper |-> PayloadWord(1), lower |-> PayloadWord(5)]]

\* C16 as stated: the eight payload bytes of a Long are read as high (the
\* first four, a big-endian u32) then low, and the i64 stored is
\* (high << 32) | low.
C16_AsClaimed == [][ReadsLong => LongStored]_vars

\* the same, for the builds for a little-endian target
LongOnLittleEndian ==
    [][(ReadsLong /\ cf_build.target_endian = "little") => LongStored]_vars

\* on a big-endian target the Long 00 00 00 01 00 00 00 02 has been stored
\* with its halves exchanged
LongHalvesExchanged ==
    /\ cf_build.target_endian = "big"
    /\ 1 \in DOMAIN cf_pool.constant_pool
    /\ cf_pool.constant_pool[1].tag = "Long"
    /\ cf_pool.constant_pool[1].data = [upper |-> 2, lower |-> 1]

\* ------------------------------------------------------------------------
\* ConstantPool accessors: the pools and indices they are asked on, and
\* their properties
\* ------------------------------------------------------------------------

\* what a slot of a pool holds; NoEntry for a key the pool does not have
NoEntry == [tag |-> "None"]

\* index 1 is meant for a Utf8, 2 for a Class, 3 for a NameAndType and 4
\* for a FieldRef, MethodRef or InterfaceMethodRef; each slot may hold the
\* entry meant for it, with its indices right, of the wrong variant or
\* absent, an entry of another variant, or nothing.  The pool has no key 9.
Slot1 == {Utf8(<<"a">>), [tag |-> "Integer", data |-> 7], NoEntry}

Slot2 ==
    {[tag |-> "Class", name_index |-> n] : n \in {1, 2, 9}}
    \cup {Utf8(<<"b">>), NoEntry}

Slot3 ==
    {NameAndType(n, d) : n \in {1, 2, 9}, d \in {1, 2, 9}}
    \cup {Utf8(<<"c">>), NoEntry}

Slot4 ==
    {[tag |-> t, class_index |-> c, name_and_type_index |-> nt] :
        t \in {"FieldRef", "MethodRef", "InterfaceMethodRef"},
        c \in {2, 1, 9}, nt \in {3, 2, 9}}
    \cup {[tag |-> "Class", name_index |-> 1], NoEntry}

\* the pool with the slots given: the keys are the slots that hold an entry
PoolOf(slots) == [k \in {j \in 1 .. 4 : slots[j] # NoEntry} |-> slots[k]]

ResolvePools ==
    {PoolOf(<<s1, s2, s3, s4>>) : s1 \in Slot1, s2 \in Slot2, s3 \in Slot3, s4 \in Slot4}

ResolveIndices == {0, 1, 2, 3, 4, 9}

\* the pool p has at k an entry of one of the variants given
Holds(p, k, variants) == k \in DOMAIN p /\ p[k].tag \in variants

\* every entry on the chain from k is there and of the variant expected
Utf8Chain(p, k) == Holds(p, k, {"Utf8"})

ClassChain(p, k) == Holds(p, k, {"Class"}) /\ Utf8Chain(p, p[k].name_index)

NameTypeChain(p, k) ==
    /\ Holds(p, k, {"NameAndType"})
    /\ Utf8Chain(p, p[k].name_index)
    /\ Utf8Chain(p, p[k].descriptor_index)

MemberChain(p, k, variants) ==
    /\ Holds(p, k, variants)
    /\ ClassChain(p, p[k].class_index)
    /\ NameTypeChain(p, p[k].name_and_type_index)

\* the chain of the accessor that was called
ChainOfCall ==
    CASE res_call = "get_utf8_entry" -> Utf8Chain(res_constant_pool, res_index)
      [] res_call = "get_class_entry" -> ClassChain(res_constant_pool, res_index)
      [] res_call = "get_name_type_entry" -> NameTypeChain(res_constant_pool, res_index)
      [] res_call = "get_field_entry" -> MemberChain(res_constant_pool, res_index, {"FieldRef"})
      [] res_call = "get_method_or_interface_entry"
           -> MemberChain(res_constant_pool, res_index, {"MethodRef", "InterfaceMethodRef"})

\* C15: each of get_utf8_entry, get_class_entry, get_name_type_entry,
\* get_field_entry and get_method_or_interface_entry returns InvalidCPEntry
\* whenever the index given, or an index followed from it, is absent or holds
\* an entry of the wrong variant; it returns Ok only when every entry on the
\* chain has the variant expected; and get_method_or_interface_entry sets
\* is_interface exactly for an InterfaceMethodRef.
C15_Resolution ==
    res_call # ""
        => /\ ~ChainOfCall => res_result = RErr(InvalidCPEntry)
           /\ ChainOfCall => res_result.status = "Ok"
           /\ (ChainOfCall /\ res_call = "get_method_or_interface_entry")
                 => res_result.val.is_interface
                      = (res_constant_pool[res_index].tag = "InterfaceMethodRef")

\* an InterfaceMethodRef has been resolved
C15_Witness ==
    /\ res_call = "get_method_or_interface_entry"
    /\ res_result.status = "Ok"
    /\ res_result.val.is_interface
    /\ res_constant_pool[res_index].tag = "InterfaceMethodRef"

\* a MethodRef whose NameAndType has a descriptor index that holds a Class
\* has been refused
C15_WitnessDeep ==
    /\ res_call = "get_method_or_interface_entry"
    /\ Holds(res_constant_pool, res_index, {"MethodRef"})
    /\ ClassChain(res_constant_pool, res_constant_pool[res_index].class_index)
    /\ Holds(res_constant_pool, res_constant_pool[res_index].name_and_type_index, {"NameAndType"})
    /\ res_result = RErr(InvalidCPEntry)

\* ------------------------------------------------------------------------
\* Properties of the disassembler: the case offsets of a tableswitch
\* ------------------------------------------------------------------------

\* the tableswitch instructions pushed so far
TableSwitches ==
    {instructions[i].instr : i \in {j \in 1 .. Len(instructions) :
                                       instructions[j].instr.op = "TableSwitch"}}

\* C23: a tableswitch whose low and high, read as signed 32-bit integers,
\* satisfy low <= high is stored with exactly high - low + 1 case offsets,
\* also when low is negative.
C23_AsClaimed ==
    \A t \in TableSwitches :
        t.low <= t.high => Len(t.offsets) = t.high - t.low + 1

\* what the code does: `low..=high` is a range of u32, which is the signed
\* range only when low and high have the same sign
C23_SameSign ==
    \A t \in TableSwitches :
        (t.low <= t.high /\ (t.low < 0 <=> t.high < 0))
            => Len(t.offsets) = t.high - t.low + 1

\* and which is empty when low is negative and high is not
C23_NegativeLowEmpty ==
    \A t \in TableSwitches : (t.low < 0 /\ t.high >= 0) => t.offsets = <<>>

\* a tableswitch with low = -1 and high = 1 is stored without case offsets
C23_NoOffsetsStored ==
    \E t \in TableSwitches : t.low = -1 /\ t.high = 1 /\ t.offsets = <<>>

\* a tableswitch with low = 0 and high = 1 is stored with its two offsets
C23_TwoOffsetsStored ==
    \E t \in TableSwitches : t.low = 0 /\ t.high = 1 /\ Len(t.offsets) = 2

\* ------------------------------------------------------------------------
\* Properties of the control flow graph: where blocks are entered and left
\* ------------------------------------------------------------------------

\* the instructions of the method that branch on a condition, and its gotos
\* (goto and goto_w are both disassembled to Goto)
ConditionalAt(i) == instructions[i].instr.op \in ConditionalBranches

GotoAt(i) == instructions[i].instr.op = "Goto"

\* the instruction at position j of the block is a goto or a conditional
\* branch
LeavesBlock(key, j) ==
    blocks[key].instructions[j].instr.op \in ConditionalBranches \cup {"Goto"}

\* C24: in every block map returned, the target of every conditional branch
\* and of every goto, and the pc that follows every conditional branch, is
\* the first pc of a block, and no goto or conditional branch is in a block
\* anywhere but at its end.
C24_AsClaimed ==
    cfg_status = "Ok" =>
        /\ \A i \in 1 .. Len(instructions) :
            /\ (ConditionalAt(i) \/ GotoAt(i)) => instructions[i].instr.branch \in Keys
            /\ (ConditionalAt(i) /\ i < Len(instructions)) => instructions[i + 1].pos \in Keys
        /\ \A key \in Keys : \A j \in 1 .. Len(blocks[key].instructions) - 1 :
                ~LeavesBlock(key, j)

\* what does hold of a returned map that is not empty: the targets of the
\* branches the code looks for (if<cond>, if_icmp<cond>, goto) and the pc
\* after an if<cond> or if_icmp<cond> start a block, and no if<cond> or
\* if_icmp<cond> is inside a block
C24_EntriesOfMatchedBranches ==
    (cfg_status = "Ok" /\ Keys # {}) =>
        /\ \A i \in 1 .. Len(instructions) :
            /\ instructions[i].instr.op \in IfVariants \cup {"Goto"}
                  => instructions[i].instr.branch \in Keys
            /\ (instructions[i].instr.op \in IfVariants /\ i < Len(instructions))
                  => instructions[i + 1].pos \in Keys
        /\ \A key \in Keys : \A j \in 1 .. Len(blocks[key].instructions) - 1 :
                blocks[key].instructions[j].instr.op \notin IfVariants

\* a goto that is not the last instruction of its block
C24_GotoInsideBlock ==
    /\ cfg_status = "Ok"
    /\ \E key \in Keys : \E j \in 1 .. Len(blocks[key].instructions) - 1 :
            blocks[key].instructions[j].instr.op = "Goto"

\* an ifnull whose target starts no block
C24_IfNullTargetInsideBlock ==
    /\ cfg_status = "Ok"
    /\ \E i \in 1 .. Len(instructions) :
            /\ instructions[i].instr.op = "IfNull"
            /\ instructions[i].instr.branch \notin Keys
            /\ \E k \in 1 .. Len(instructions) :
                    instructions[k].pos = instructions[i].instr.branch

\* ------------------------------------------------------------------------
\* Properties of the control flow graph: branch targets that are no pc
\* ------------------------------------------------------------------------

\* pc is the pc of an instruction of the method
IsPc(pc) == \E k \in 1 .. Len(instructions) : instructions[k].pos = pc

\* some branch of one of the variants given has a target that is no pc
UnresolvedTarget(variants) ==
    \E i \in 1 .. Len(instructions) :
        /\ instructions[i].instr.op \in variants
        /\ ~IsPc(instructions[i].instr.branch)

\* C25: when a conditional branch or goto has a target that is not the pc
\* of an instruction of the list, the build of the control flow graph fails
\* with an error value; it does not panic.
C25_AsClaimed ==
    (cfg_status # "idle" /\ UnresolvedTarget(ConditionalBranches \cup {"Goto"}))
        => cfg_status # "Panic"

\* what the code does: gen_control_flow_graph has no error to return (its
\* type is HashMap<u64, Block>), and the `.unwrap()` of the first loop
\* panics for every if<cond>, if_icmp<cond> or goto with such a target
C25_UnresolvedPanics ==
    (cfg_status # "idle" /\ UnresolvedTarget(IfVariants \cup {"Goto"}))
        => cfg_status = "Panic" /\ cfg_panic = "get_index_for_pos(..).unwrap()"

\* the build has panicked on a goto whose target is no pc
C25_Panicked ==
    /\ cfg_status = "Panic"
    /\ cfg_panic = "get_index_for_pos(..).unwrap()"
    /\ UnresolvedTarget({"Goto"})

\* ------------------------------------------------------------------------
\* Properties of the control flow graph: lists on which it is built
\* ------------------------------------------------------------------------

\* the list handed to gen_control_flow_graph is not empty and every
\* if<cond>, if_icmp<cond> and goto of it aims at the pc of an instruction
Resolvable ==
    /\ cfg_status # "idle"
    /\ instructions # <<>>
    /\ ~UnresolvedTarget(IfVariants \cup {"Goto"})

\* C30: on every such list gen_control_flow_graph returns a block map
\* without aborting, also when the only split point is pc 0, when the last
\* instruction is a conditional branch, and when the last instruction is
\* neither a return nor a goto.
C30_AsClaimed == Resolvable => cfg_status = "Ok"

LastInstr == instructions[Len(instructions)].instr

\* what the code does on such lists: it panics at one of three places
C30_PanicSites ==
    (Resolvable /\ cfg_status = "Panic")
        => cfg_panic \in {"split_indices.last().unwrap()",
                          "split_indices.remove(vec.len() - 1)",
                          "next.unwrap()"}

\* whenever the last instruction is neither a return nor a goto, the build
\* panics or returns the empty map
C30_OpenEndNeverBuilt ==
    (Resolvable /\ LastInstr.op \notin ReturnVariants \cup {"Goto"})
        => cfg_status = "Panic" \/ blocks = <<>>

\* a lone goto back to pc 0 panics at the `.last().unwrap()` of
\* split_at_multiple
C30_OnlySplitAtZero ==
    /\ Resolvable
    /\ Len(instructions) = 1
    /\ LastInstr = [op |-> "Goto", branch |-> 0]
    /\ cfg_status = "Panic"
    /\ cfg_panic = "split_indices.last().unwrap()"

\* a list that ends in a conditional branch panics at the remove
C30_SplitAtLength ==
    /\ Resolvable
    /\ LastInstr.op \in IfVariants
    /\ cfg_status = "Panic"
    /\ cfg_panic = "split_indices.remove(vec.len() - 1)"

\* a list that ends in athrow panics at `next.unwrap()`
C30_OpenEnd ==
    /\ Resolvable
    /\ LastInstr.op = "AThrow"
    /\ cfg_status = "Panic"
    /\ cfg_panic = "next.unwrap()"

\* ------------------------------------------------------------------------
\* javaclass: the index of read_constant_pool (javaclass-rs/src/lib.rs
\* 319-399) over pools of any declared size.  Only what the index depends
\* on is kept: the count read, the u16 i, the tag of the entry of each turn
\* (any tag can come next in the bytes, each entry carrying its own length)
\* and, of the map, the lowest and the highest key inserted.
\* ------------------------------------------------------------------------

\* the tags read_constant_pool has an arm for (lines 326-388)
CpTypes == {1, 3, 4, 5, 6, 7, 8, 9, 10, 11, 12, 15, 16, 18}

\* no key inserted yet (`HashMap::new()`, line 321)
NoKeys == [lowest |-> 65536, highest |-> -1]

\* `constant_pool.insert(i, entry)` (line 390), on the lowest and highest key
keys_inserted(keys, i) ==
    [lowest |-> IF i < keys.lowest THEN i ELSE keys.lowest,
     highest |-> IF i > keys.highest THEN i ELSE keys.highest]

\* the same on what is kept of one key and of the key after it: whether
\* the key holds a Long or Double, and whether the key after it holds an
\* entry
watched_inserted(w, i, cp_type) ==
    IF i = w.key THEN [w EXCEPT !.wide = (cp_type = 5 \/ cp_type = 6)]
    ELSE IF i = w.key + 1 THEN [w EXCEPT !.next = TRUE]
    ELSE w

\* lines 390-394 with an entry of tag cp_type read
cpi_advanced(cp_type, n) ==
    IF n.panic
    THEN /\ cpi_status' = "Panic"
         /\ UNCHANGED <<cpi_i, cpi_keys, cpi_watched>>
    ELSE /\ cpi_status' = "loop"
         /\ cpi_i' = n.val
         /\ cpi_keys' = keys_inserted(cpi_keys, cpi_i)
         /\ cpi_watched' = watched_inserted(cpi_watched, cpi_i, cp_type)

\* one turn of the loop in which the entry is read
PoolEntryRead ==
    /\ cpi_status = "loop"
    /\ cpi_i < cpi_constant_pool_count
    /\ \E cp_type \in CpTypes :
          cpi_advanced(cp_type, cp_next_index(cpi_i, cp_type, cpi_overflow_checks))
    /\ UNCHANGED <<cpi_overflow_checks, cpi_constant_pool_count>>
    /\ UNCHANGED CpiOthers

\* one turn of the loop in which a `?` or the `_` arm returns an error (the
\* bytes end, the tag is unknown or the Utf8 bytes are refused)
PoolEntryFails ==
    /\ cpi_status = "loop"
    /\ cpi_i < cpi_constant_pool_count
    /\ cpi_status' = "Err"
    /\ UNCHANGED <<cpi_overflow_checks, cpi_constant_pool_count, cpi_i, cpi_keys, cpi_watched>>
    /\ UNCHANGED CpiOthers

\* the loop is left and the pool returned (lines 396-398)
PoolReturned ==
    /\ cpi_status = "loop"
    /\ ~(cpi_i < cpi_constant_pool_count)
    /\ cpi_status' = "Ok"
    /\ UNCHANGED <<cpi_overflow_checks, cpi_constant_pool_count, cpi_i, cpi_keys, cpi_watched>>
    /\ UNCHANGED CpiOthers

\* the counts declared: none, the smallest pools, and the largest two
PoolCounts == {0, 1, 2, 3, 65534, 65535}

\* the key that is watched
WatchedKeys == {2}

\* C14 on pools of any size: when the pool is returned and the watched key
\* holds a Long or Double, the key after it holds no entry.
C14_AsClaimed ==
    (cpi_status = "Ok" /\ cpi_watched.wide) => ~cpi_watched.next

\* what does hold: the slot after a Long or Double stays empty in a build
\* with overflow checks and for every count below 65535
C14_SlotReservedBelowWrap ==
    (cpi_status = "Ok" /\ cpi_watched.wide
       /\ (cpi_overflow_checks \/ cpi_constant_pool_count < 65535))
        => ~cpi_watched.next

\* a pool has been returned with a Long or Double at 2 and an entry at 3
C14_SlotFilledAfterWrap ==
    /\ cpi_status = "Ok"
    /\ cpi_watched = [key |-> 2, wide |-> TRUE, next |-> TRUE]

\* C29: after read_constant_pool returns Ok for a declared count c, every
\* key k of the map satisfies 1 <= k < c, also when a Long or Double is the
\* last entry read.
C29_AsClaimed ==
    (cpi_status = "Ok" /\ cpi_keys # NoKeys)
        => 1 <= cpi_keys.lowest /\ cpi_keys.highest < cpi_constant_pool_count

\* what does hold: the keys are within 1 .. c - 1 in a build with overflow
\* checks, and for every count below 65535 in any build
C29_KeysBelowCount ==
    (cpi_status = "Ok" /\ cpi_keys # NoKeys
       /\ (cpi_overflow_checks \/ cpi_constant_pool_count < 65535))
        => 1 <= cpi_keys.lowest /\ cpi_keys.highest < cpi_constant_pool_count

\* no key is ever at or above the count
C29_NoKeyAtCount ==
    cpi_keys # NoKeys => cpi_keys.highest < cpi_constant_pool_count

\* a build with overflow checks panics at the second `i += 1` after a Long
\* or Double at 65534
C29_IndexOverflowPanics == cpi_status = "Panic" /\ cpi_i = 65534

\* a build without them goes on at index 0
C29_IndexWrapped == cpi_status = "loop" /\ cpi_i = 0

\* and returns a pool with an entry at index 0
C29_KeyZeroReturned == cpi_status = "Ok" /\ cpi_keys.lowest = 0

\* a Long or Double as the last entry of a pool of 3: keys 1 and 2, i = 4
C29_WideLast ==
    /\ cpi_status = "Ok"
    /\ cpi_constant_pool_count = 3
    /\ cpi_i = 4
    /\ cpi_keys = [lowest |-> 1, highest |-> 2]

\* ------------------------------------------------------------------------
\* Properties of decompile_block: instructions it does not execute, and the
\* constant instructions
\* ------------------------------------------------------------------------

\* the variants the symbolic executor is specified to execute (the loads,
\* stores, invokespecial/invokevirtual, return, getstatic, arraylength, ldc,
\* the constants, imul, i2b and checkcast)
ExecutorSet ==
    {"ILoad", "LLoad", "FLoad", "DLoad", "ALoad", "IStore", "LStore", "FStore",
     "DStore", "AStore", "InvokeSpecial", "InvokeVirtual", "Return", "GetStatic",
     "ArrayLength", "LoadConst", "IConst", "LConst", "FConst", "DConst", "BIPush",
     "SIPush", "IMul", "I2b", "CheckCast"}

\* an ldc of an entry that is there and is neither a String nor a number
LoadsOtherEntry(code) ==
    /\ code.op = "LoadConst"
    /\ TagAt(code.index) \notin {"absent", "String", "Integer", "Long", "Float", "Double"}

Unhandled(code) == code.op \notin ExecutorSet \/ LoadsOtherEntry(code)

C26_UnhandledPanics ==
    [][ (Running /\ Unhandled(Cur))
          => (blk_status' = "Panic" /\ stack' = stack /\ statements' = statements) ]_vars

\* the process has been aborted at an iadd, at an ifeq, at a getfield and
\* at an ldc of a Class entry
C26_PanickedAtIAdd == blk_status = "Panic" /\ Cur.op = "IAdd"

C26_PanickedAtIfEq == blk_status = "Panic" /\ Cur.op = "IfEq"

C26_PanickedAtGetField == blk_status = "Panic" /\ Cur.op = "GetField"

C26_PanickedAtLdcClass ==
    blk_status = "Panic" /\ Cur.op = "LoadConst" /\ TagAt(Cur.index) = "Class"

\* C27: decompile_block pushes ConstInt carrying the immediate for iconst,
\* lconst, bipush and sipush and ConstFloat for fconst and dconst;
\* [bipush 7, istore_0] returns [Set{0, ConstInt(7)}] and
\* [lconst_1, lstore_1] returns [Set{1, ConstInt(1)}].
C27_AsClaimed ==
    [][ /\ (Running /\ Cur.op \in {"IConst", "LConst", "BIPush", "SIPush"}) =>
              /\ stack' = Append(stack, [ast |-> "ConstInt", value |-> Cur.value])
              /\ statements' = statements
        /\ (Running /\ Cur.op \in {"FConst", "DConst"}) =>
              /\ stack' = Append(stack, [ast |-> "ConstFloat", value |-> Cur.value])
              /\ statements' = statements
        /\ (blk_next > Len(block) /\ blk_status = "loop"
              /\ block = WithPcs(<< [op |-> "BIPush", value |-> 7], OpIndex("IStore", 0) >>))
              => (blk_status' = "Ok"
                    /\ statements = << [ast |-> "Set", index |-> 0,
                                        value |-> [ast |-> "ConstInt", value |-> 7]] >>)
      ]_vars

\* what the code does: iconst pushes ConstInt with its immediate, and each
\* of lconst, fconst, dconst, bipush and sipush panics
C27_IConstOnly ==
    [][ /\ (Running /\ Cur.op = "IConst") =>
              /\ stack' = Append(stack, [ast |-> "ConstInt", value |-> Cur.value])
              /\ statements' = statements
        /\ (Running /\ Cur.op \in {"LConst", "FConst", "DConst", "BIPush", "SIPush"}) =>
              blk_status' = "Panic"
      ]_vars

\* [iconst_5, istore_0] has returned [Set{0, ConstInt(5)}]
C27_IConstStored ==
    /\ blk_status = "Ok"
    /\ block = WithPcs(<< [op |-> "IConst", value |-> 5], OpIndex("IStore", 0) >>)
    /\ statements = << [ast |-> "Set", index |-> 0,
                        value |-> [ast |-> "ConstInt", value |-> 5]] >>

\* [bipush 7, istore_0] has panicked at its first instruction
C27_BIPushPanicked ==
    /\ blk_status = "Panic"
    /\ block = WithPcs(<< [op |-> "BIPush", value |-> 7], OpIndex("IStore", 0) >>)
    /\ blk_next = 1

\* and so has [lconst_1, lstore_1]
C27_LConstPanicked ==
    /\ blk_status = "Panic"
    /\ block = WithPcs(<< [op |-> "LConst", value |-> 1], OpIndex("LStore", 1) >>)
    /\ blk_next = 1

\* ------------------------------------------------------------------------
\* find_paths (lib.rs 346-371).  A block is carried as its branches, the
\* only field find_paths reads.  The result is [status, val]: Ok with the
\* paths, Panic for `blocks.get(&node).unwrap()` on a node that is no key,
\* and Deep when the recursion is cut: path_in has no pc twice, so a call
\* with a path_in longer than the map has keys is one the code would go on
\* from for ever.
\* ------------------------------------------------------------------------

FpOk(paths) == [status |-> "Ok", val |-> paths]
FpPanic == [status |-> "Panic", val |-> <<>>]
FpDeep == [status |-> "Deep", val |-> <<>>]

\* mutant: no pc counts as on the path
path_contains_Never(path, b) == FALSE

\* `path.contains(b)`
path_contains(path, b) == \E i \in 1 .. Len(path) : path[i] = b

\* `for p in find_paths(..) { v = start_vector.clone(); v.extend(p); paths.push(v) }`
extended(node, found, paths) ==
    paths \o [i \in 1 .. Len(found) |-> <<node>> \o found[i]]

RECURSIVE find_paths(_, _, _)
RECURSIVE branch_paths(_, _, _, _, _)

\* what the branches from the k-th on add to paths (lines 356-368)
branch_followed(blks, node, path, k, paths, found) ==
    IF found.status # "Ok" THEN found
    ELSE branch_paths(blks, node, path, k + 1, extended(node, found.val, paths))

branch_paths(blks, node, path, k, paths) ==
    IF k > Len(blks[node]) THEN FpOk(paths)
    ELSE IF ~path_contains(path, blks[node][k])
    THEN branch_followed(blks, node, path, k, paths,
                         find_paths(blks, blks[node][k], path))
    ELSE branch_paths(blks, node, path, k + 1, Append(paths, <<node, blks[node][k]>>))

find_paths(blks, node, path_in) ==
    IF Len(path_in) > Cardinality(DOMAIN blks) THEN FpDeep
    ELSE IF node \notin DOMAIN blks THEN FpPanic
    ELSE IF Len(blks[node]) = 0 THEN FpOk(<< <<node>> >>)
    ELSE branch_paths(blks, node, Append(path_in, node), 1, <<>>)

\* a call `find_paths(&blocks, node, Vec::new())` (lib.rs 657)
FindPaths ==
    /\ fp_status = "call"
    /\ LET r == find_paths(fp_blocks, fp_node, <<>>)
       IN  /\ fp_status' = r.status
           /\ fp_paths' = r.val
    /\ UNCHANGED <<fp_blocks, fp_node>>
    /\ UNCHANGED FpOthers

\* ------------------------------------------------------------------------
\* find_paths: the block maps it is called on, and its properties
\* ------------------------------------------------------------------------

MaxBranches == 2    \* most successors of a block (the graph builder pushes up to 2)

\* the pcs of the blocks
BlockPcs == {0, 3, 5}

\* every map over one, two or three of the pcs in which each block has up
\* to MaxBranches successors, all of them keys (cycles, self loops and
\* twice the same successor included)
ClosedMaps ==
    UNION {[K -> SeqsUpTo(K, MaxBranches)] : K \in {{0}, {0, 3}, BlockPcs}}

\* a diamond, a diamond whose join loops back to the entry, a loop behind a
\* straight run, and two nested loops, over four and five pcs
LargerMaps ==
    { (0 :> <<3, 5>>) @@ (3 :> <<8>>) @@ (5 :> <<8>>) @@ (8 :> <<>>),
      (0 :> <<3, 5>>) @@ (3 :> <<8>>) @@ (5 :> <<8>>) @@ (8 :> <<0>>),
      (0 :> <<3>>) @@ (3 :> <<5>>) @@ (5 :> <<3, 8>>) @@ (8 :> <<>>),
      (0 :> <<3>>) @@ (3 :> <<5, 11>>) @@ (5 :> <<8, 3>>) @@ (8 :> <<5>>) @@ (11 :> <<>>) }

\* maps with a successor that is no key
OpenMaps ==
    { (0 :> <<9>>), (0 :> <<3, 9>>) @@ (3 :> <<>>), (0 :> <<3>>) @@ (3 :> <<0, 9>>) }

BlockMaps == ClosedMaps \cup LargerMaps \cup OpenMaps

\* each successor pc is a key, and so is the entry
Closed ==
    /\ fp_node \in DOMAIN fp_blocks
    /\ \A key \in DOMAIN fp_blocks : \A k \in 1 .. Len(fp_blocks[key]) :
            fp_blocks[key][k] \in DOMAIN fp_blocks

\* b is a successor of a
Edge(a, b) == \E k \in 1 .. Len(fp_blocks[a]) : fp_blocks[a][k] = b

\* p starts at the entry, steps along successor edges, has no pc twice
\* before its last element, and ends at a block without successors or at a
\* pc it has been at
IsPath(p) ==
    /\ Len(p) >= 1
    /\ p[1] = fp_node
    /\ \A i \in 1 .. Len(p) - 1 : Edge(p[i], p[i + 1])
    /\ \A i, j \in 1 .. Len(p) - 1 : i # j => p[i] # p[j]
    /\ \/ /\ \A i \in 1 .. Len(p) - 1 : p[i] # p[Len(p)]
          /\ fp_blocks[p[Len(p)]] = <<>>
       \/ \E i \in 1 .. Len(p) - 1 : p[i] = p[Len(p)]

\* C28: on every block map in which each successor pc is a key, find_paths
\* from an entry pc returns, and every path returned starts at the entry,
\* steps only along successor edges, ends at a block with no successors or
\* at a pc already on the path, and has no pc twice but for that last one.
C28_FindPaths ==
    (Closed /\ fp_status # "call")
        => /\ fp_status = "Ok"
           /\ Len(fp_paths) >= 1
           /\ \A n \in 1 .. Len(fp_paths) : IsPath(fp_paths[n])

\* the paths of the diamond whose join loops back: [0, 3, 8, 0], [0, 5, 8, 0]
C28_Witness ==
    /\ fp_status = "Ok"
    /\ fp_node = 0
    /\ fp_blocks = (0 :> <<3, 5>>) @@ (3 :> <<8>>) @@ (5 :> <<8>>) @@ (8 :> <<0>>)
    /\ fp_paths = << <<0, 3, 8, 0>>, <<0, 5, 8, 0>> >>

\* a self loop: [0, 0]
C28_WitnessSelfLoop ==
    /\ fp_status = "Ok"
    /\ fp_blocks = (0 :> <<0>>)
    /\ fp_paths = << <<0, 0>> >>

\* a successor that is no key panics
C28_OpenMapPanics == ~Closed /\ fp_status = "Panic"

\* ------------------------------------------------------------------------
\* main and run (main.rs 44-89) and decompile (lib.rs 634-671).  What the
\* file system, the zip reader, read_classfile, disassemble,
\* gen_control_flow_graph and decompile_block give for an INPUT is part of
\* the input here (each of them is modelled on its own above): an INPUT is
\*   [kind |-> "class", open, class]  or
\*   [kind |-> "jar", open, archive, entries],
\* an entry is [by_index, is_class, read_to_end, class], a class is
\* [read, methods], a method is [name, codes] with one element of codes for
\* each Code attribute, and a Code attribute is [disassemble, graph, blocks]
\* with one outcome of decompile_block for each block.  An outcome is "Ok",
\* "Err" or, where the code can panic, "Panic".
\* A line of standard output is [val, entry, method, what]; the line of
\* standard error that main prints is [tool, context, error].
\* ------------------------------------------------------------------------

Line(at, what) == [val |-> at.val, entry |-> at.entry, method |-> at.method, what |-> what]

\* `eprintln!("{}: {}", name, e)` with the Display of ContextError
\* (main.rs 16-20, 86)
Diagnostic(context, error) == [tool |-> "javadec", context |-> context, error |-> error]

\* what a call has done: the lines it printed and how it ended ("Ok",
\* "Err" with the error, "Panic")
Done(lines) == [status |-> "Ok", lines |-> lines, err |-> ""]
Failed(lines, error) == [status |-> "Err", lines |-> lines, err |-> error]
Panicked(lines) == [status |-> "Panic", lines |-> lines, err |-> ""]

\* lib.rs 659-666: the blocks of a graph from the k-th on.  decompile_block
\* prints each instruction it comes to (line 512), also in a block it then
\* fails on; the statements are printed once it has returned Ok
RECURSIVE decompile_blocks(_, _, _, _)
decompile_blocks(at, outcomes, k, lines) ==
    IF k > Len(outcomes) THEN Done(lines)
    ELSE IF outcomes[k] = "Err"
    THEN Failed(Append(lines, Line(at, "block instructions")), "decompile_block")
    ELSE IF outcomes[k] = "Panic"
    THEN Panicked(Append(lines, Line(at, "block instructions")))
    ELSE decompile_blocks(at, outcomes, k + 1,
                          lines \o <<Line(at, "block instructions"), Line(at, "statements")>>)

\* lib.rs 652-658: the instructions are printed, the graph is built, the
\* paths are printed
decompile_graph(at, code, lines) ==
    IF code.graph = "Panic" THEN Panicked(Append(lines, Line(at, "instructions")))
    ELSE decompile_blocks(at, code.blocks, 1,
                          lines \o <<Line(at, "instructions"), Line(at, "paths")>>)

\* lib.rs 643-668: the attributes of a method from the k-th Code attribute on
RECURSIVE decompile_codes(_, _, _, _)
decompile_code_done(at, codes_, k, r) ==
    IF r.status # "Ok" THEN r ELSE decompile_codes(at, codes_, k + 1, r.lines)

decompile_codes(at, codes_, k, lines) ==
    IF k > Len(codes_) THEN Done(lines)
    ELSE IF codes_[k].disassemble = "Err" THEN Failed(lines, "disassemble")
    ELSE decompile_code_done(at, codes_, k, decompile_graph(at, codes_[k], lines))

\* lib.rs 635-669: one turn of `for method in class.methods`
decompile_method(at, method) ==
    IF method.name = "Panic" THEN Panicked(<<>>)
    ELSE decompile_codes(at, method.codes, 1, <<Line(at, "method name")>>)

\* the INPUT, the archive entry and the class the loops are at
Val == run_inputs[run_val]
Entry == Val.entries[run_entry]
Class == IF run_entry = 0 THEN Val.class ELSE Entry.class
At == [val |-> run_val, entry |-> run_entry, method |-> run_method]

\* where the loops go on once the entry, the class or the method they are
\* at is done with
AfterEntry ==
    IF run_entry < Len(Val.entries)
    THEN [val |-> run_val, entry |-> run_entry + 1, method |-> 0]
    ELSE [val |-> run_val + 1, entry |-> 0, method |-> 0]

AfterClass ==
    IF run_entry = 0 THEN [val |-> run_val + 1, entry |-> 0, method |-> 0] ELSE AfterEntry

AfterMethod ==
    IF run_method < Len(Class.methods)
    THEN [val |-> run_val, entry |-> run_entry, method |-> run_method + 1]
    ELSE AfterClass

\* the loops go on at `at`
GoOn(at, lines) ==
    /\ run_val' = at.val
    /\ run_entry' = at.entry
    /\ run_method' = at.method
    /\ run_stdout' = run_stdout \o lines
    /\ UNCHANGED <<run_stderr, run_status, run_exit>>

\* main.rs 85-88: the Err arm prints the diagnostic and main returns like
\* the Ok arm does, so the process exits with status 0
exit_after_error == 0

\* a `?` of run returns the ContextError to main (main.rs 85-86)
Fail(lines, error) ==
    /\ run_stdout' = run_stdout \o lines
    /\ run_stderr' = Append(run_stderr, Diagnostic(run_val, error))
    /\ run_status' = "exit"
    /\ run_exit' = exit_after_error
    /\ UNCHANGED <<run_val, run_entry, run_method>>

\* a panic unwinds main: the panic message goes to standard error and the
\* process exits with status 101
Panic(lines) ==
    /\ run_stdout' = run_stdout \o lines
    /\ run_stderr' = Append(run_stderr, [panic |-> "thread 'main' panicked"])
    /\ run_status' = "exit"
    /\ run_exit' = 101
    /\ UNCHANGED <<run_val, run_entry, run_method>>

\* read_classfile has returned the class: decompile starts on its methods
Decompile(class, lines) ==
    IF class.read = "Err" THEN Fail(lines, "read_classfile")
    ELSE IF class.methods = <<>> THEN GoOn(AfterClass, lines)
    ELSE GoOn([val |-> run_val, entry |-> run_entry, method |-> 1], lines)

\* main.rs 49-51 and 64: one turn of `for val in matches.values_of("INPUT")`
\* up to the first archive entry or the first method
RunInput ==
    /\ run_status = "run"
    /\ run_val <= Len(run_inputs)
    /\ run_entry = 0
    /\ run_method = 0
    /\ IF Val.open = "Err" THEN Fail(<<>>, "File::open")
       ELSE IF Val.kind = "jar"
       THEN IF Val.archive = "Err" THEN Fail(<<>>, "ZipArchive::new")
            ELSE IF Val.entries = <<>>
            THEN GoOn([val |-> run_val + 1, entry |-> 0, method |-> 0], <<>>)
            ELSE GoOn([val |-> run_val, entry |-> 1, method |-> 0], <<>>)
       ELSE Decompile(Val.class, <<>>)
    /\ UNCHANGED run_inputs
    /\ UNCHANGED RunOthers

\* main.rs 52-61: one turn of `for i in 0..archive.len()` up to the first
\* method of the entry
RunArchiveEntry ==
    /\ run_status = "run"
    /\ run_entry >= 1
    /\ run_method = 0
    /\ IF Entry.by_index = "Err" THEN Fail(<<>>, "by_index")
       ELSE IF ~Entry.is_class THEN GoOn(AfterEntry, <<Line(At, "entry name")>>)
       ELSE IF Entry.read_to_end = "Err"
       THEN Fail(<<Line(At, "entry name")>>, "read_to_end")
       ELSE Decompile(Entry.class, <<Line(At, "entry name")>>)
    /\ UNCHANGED run_inputs
    /\ UNCHANGED RunOthers

\* lib.rs 635-669: one turn of `for method in class.methods`
Decompiled(r) ==
    IF r.status = "Ok" THEN GoOn(AfterMethod, r.lines)
    ELSE IF r.status = "Err" THEN Fail(r.lines, r.err)
    ELSE Panic(r.lines)

DecompileMethod ==
    /\ run_status = "run"
    /\ run_method >= 1
    /\ Decompiled(decompile_method(At, Class.methods[run_method]))
    /\ UNCHANGED run_inputs
    /\ UNCHANGED RunOthers

\* main.rs 68 and 87: run returns Ok(()) and main returns
RunReturn ==
    /\ run_status = "run"
    /\ run_val > Len(run_inputs)
    /\ run_status' = "exit"
    /\ run_exit' = 0
    /\ UNCHANGED <<run_inputs, run_val, run_entry, run_method, run_stdout, run_stderr>>
    /\ UNCHANGED RunOthers

\* ------------------------------------------------------------------------
\* main: the command lines it is run on
\* ------------------------------------------------------------------------

MaxInputs == 2      \* most INPUT arguments of a command line

CodeOf(disassemble, graph, outcomes) ==
    [disassemble |-> disassemble, graph |-> graph, blocks |-> outcomes]

MethodOf(name, codes_) == [name |-> name, codes |-> codes_]

\* a method without Code (abstract or native), one whose name index does
\* not resolve, and methods with one Code attribute: disassemble fails, the
\* graph builder panics, one or two blocks that decompile, a block that
\* fails alone or after one that decompiled, a block that panics
AbstractMethod == MethodOf("Ok", <<>>)
GoodMethod == MethodOf("Ok", <<CodeOf("Ok", "Ok", <<"Ok", "Ok">>)>>)
MethodShapes ==
    { AbstractMethod, GoodMethod,
      MethodOf("Panic", <<>>),
      MethodOf("Ok", <<CodeOf("Err", "Ok", <<>>)>>),
      MethodOf("Ok", <<CodeOf("Ok", "Panic", <<>>)>>),
      MethodOf("Ok", <<CodeOf("Ok", "Ok", <<"Ok">>)>>),
      MethodOf("Ok", <<CodeOf("Ok", "Ok", <<"Err">>)>>),
      MethodOf("Ok", <<CodeOf("Ok", "Ok", <<"Ok", "Err">>)>>),
      MethodOf("Ok", <<CodeOf("Ok", "Ok", <<"Panic">>)>>),
      MethodOf("Ok", <<CodeOf("Ok", "Ok", <<"Ok">>), CodeOf("Err", "Ok", <<>>)>>) }

ClassOf(read, methods) == [read |-> read, methods |-> methods]

\* a file that is no class file, a class without methods, and classes with
\* one method of each shape alone or after a method that decompiled
UnreadableClass == ClassOf("Err", <<>>)
GoodClass == ClassOf("Ok", <<GoodMethod, AbstractMethod>>)
ClassShapes ==
    { UnreadableClass, ClassOf("Ok", <<>>), GoodClass }
    \cup {ClassOf("Ok", <<m>>) : m \in MethodShapes}
    \cup {ClassOf("Ok", <<GoodMethod, m>>) : m \in MethodShapes}

EntryOf(by_index, is_class, read_to_end, class) ==
    [by_index |-> by_index, is_class |-> is_class, read_to_end |-> read_to_end,
     class |-> class]

\* the entries of an archive: one that cannot be opened, a manifest, a class
\* whose bytes cannot be read, and classes that are unreadable, decompile,
\* or fail in disassemble
OtherEntry == EntryOf("Ok", FALSE, "Ok", UnreadableClass)
GoodEntry == EntryOf("Ok", TRUE, "Ok", GoodClass)
EntryShapes ==
    { EntryOf("Err", TRUE, "Ok", GoodClass), OtherEntry, GoodEntry,
      EntryOf("Ok", TRUE, "Err", GoodClass),
      EntryOf("Ok", TRUE, "Ok", UnreadableClass),
      EntryOf("Ok", TRUE, "Ok", ClassOf("Ok", <<MethodOf("Ok", <<CodeOf("Err", "Ok", <<>>)>>)>>)) }

ClassInput(open, class) == [kind |-> "class", open |-> open, class |-> class]

JarInput(open, archive, entries) ==
    [kind |-> "jar", open |-> open, archive |-> archive, entries |-> entries]

InputShapes ==
    { ClassInput("Err", GoodClass), JarInput("Err", "Ok", <<>>), JarInput("Ok", "Err", <<>>),
      JarInput("Ok", "Ok", <<>>) }
    \cup {ClassInput("Ok", c) : c \in ClassShapes}
    \cup {JarInput("Ok", "Ok", <<e>>) : e \in EntryShapes}
    \cup {JarInput("Ok", "Ok", <<OtherEntry, GoodEntry, e>>) : e \in EntryShapes}

\* INPUT is required: one argument at least
CommandLines == UNION {[1 .. n -> InputShapes] : n \in 1 .. MaxInputs}

\* ------------------------------------------------------------------------
\* main: properties.  Whether an INPUT can be processed is read off the
\* INPUT itself.
\* ------------------------------------------------------------------------

GoodCode(code) ==
    /\ code.disassemble = "Ok"
    /\ code.graph = "Ok"
    /\ \A k \in 1 .. Len(code.blocks) : code.blocks[k] = "Ok"

GoodMethodOf(method) ==
    /\ method.name = "Ok"
    /\ \A k \in 1 .. Len(method.codes) : GoodCode(method.codes[k])

GoodClassOf(class) ==
    /\ class.read = "Ok"
    /\ \A k \in 1 .. Len(class.methods) : GoodMethodOf(class.methods[k])

GoodEntryOf(e) ==
    /\ e.by_index = "Ok"
    /\ e.is_class => (e.read_to_end = "Ok" /\ GoodClassOf(e.class))

GoodInput(val) ==
    /\ val.open = "Ok"
    /\ IF val.kind = "jar"
       THEN /\ val.archive = "Ok"
            /\ \A k \in 1 .. Len(val.entries) : GoodEntryOf(val.entries[k])
       ELSE GoodClassOf(val.class)

\* every INPUT is opened, parsed and decompiled without error
AllGood == \A k \in 1 .. Len(run_inputs) : GoodInput(run_inputs[k])

Exited == run_status = "exit"

\* standard error holds the diagnostic `javadec: <context>: <error>` and no
\* other line
OneDiagnostic ==
    /\ Len(run_stderr) = 1
    /\ DOMAIN run_stderr[1] = {"tool", "context", "error"}
    /\ run_stderr[1].tool = "javadec"

\* C21: the program exits with status 0 only when every INPUT was opened,
\* parsed and decompiled without error; when a step fails it prints one
\* diagnostic line `javadec: <context>: <error>` and exits with a status
\* that is not 0.
C21_AsClaimed ==
    Exited => /\ run_exit = 0 => AllGood
              /\ ~AllGood => (OneDiagnostic /\ run_exit # 0)

\* a step has returned an error (it did not panic)
ReturnedError == Exited /\ Len(run_stderr) = 1 /\ "error" \in DOMAIN run_stderr[1]

\* what the code does: after an error of any step there is the one
\* diagnostic line, with the INPUT as context, and the exit status is 0 as
\* after a run without error; the status is not 0 only after a panic
C21_ErrorExitsWithZero ==
    Exited =>
        /\ AllGood => (run_exit = 0 /\ run_stderr = <<>>)
        /\ ReturnedError => (OneDiagnostic /\ run_stderr[1].context = run_val /\ run_exit = 0)
        /\ run_exit \in {0, 101}
        /\ run_exit = 101 <=> (Len(run_stderr) = 1 /\ "panic" \in DOMAIN run_stderr[1])
        /\ ~AllGood => Len(run_stderr) = 1

\* a file that is no class file: the diagnostic is printed and the status
\* is 0
C21_FailedWithZero ==
    /\ Exited
    /\ run_inputs = <<ClassInput("Ok", UnreadableClass)>>
    /\ run_stderr = <<Diagnostic(1, "read_classfile")>>
    /\ run_exit = 0

\* two INPUTs that decompile: status 0 and nothing on standard error
C21_AllDecompiled ==
    /\ Exited
    /\ Len(run_inputs) = 2
    /\ AllGood
    /\ run_exit = 0
    /\ run_stderr = <<>>
    /\ run_stdout # <<>>

\* the class file the run is at has failed in read_classfile or decompile
ClassFileFailed ==
    /\ ReturnedError
    /\ run_stderr[1].error \in {"read_classfile", "disassemble", "decompile_block"}

\* the lines of standard output that come from the class file the run is
\* at (the name of an archive entry, printed before the entry is read, is
\* not counted)
LinesOfClassFile ==
    {i \in 1 .. Len(run_stdout) :
        /\ run_stdout[i].val = run_val
        /\ run_stdout[i].entry = run_entry
        /\ run_stdout[i].what # "entry name"}

\* C22: when processing of a class file fails (read_classfile or decompile
\* returns an error for it), nothing has been written to standard output
\* for that class file; the diagnostic line is all the user sees of it.
C22_AsClaimed == ClassFileFailed => LinesOfClassFile = {}

\* what the code does: there is no output for a class file that
\* read_classfile refuses, and there always is for one that decompile
\* fails on, the name of the method at least
C22_OutputBeforeFailure ==
    ClassFileFailed =>
        IF run_stderr[1].error = "read_classfile" THEN LinesOfClassFile = {}
        ELSE \E i \in LinesOfClassFile :
                run_stdout[i].what = "method name" /\ run_stdout[i].method = run_method

\* a class whose second block fails: the name of the method, its
\* instructions, its paths, and the statements of the first block are on
\* standard output ahead of the diagnostic
C22_PartialOutput ==
    /\ ClassFileFailed
    /\ run_stderr[1].error = "decompile_block"
    /\ \E i \in LinesOfClassFile : run_stdout[i].what = "statements"

\* a class that fails in its second method after the first was printed
C22_EarlierMethodPrinted ==
    /\ ClassFileFailed
    /\ run_method = 2
    /\ \E i \in LinesOfClassFile : run_stdout[i].method = 1

\* ------------------------------------------------------------------------
\* Specifications
\* ------------------------------------------------------------------------

DisasmIdle ==
    /\ codes = [buf |-> <<>>, position |-> 0]
    /\ instructions = <<>>
    /\ dis_status = "idle"
    /\ dis_error = NoError

CfgIdle ==
    /\ blocks = <<>>
    /\ cfg_status = "idle"
    /\ cfg_panic = ""

BlkIdle ==
    /\ block = <<>>
    /\ constant_pool = <<>>
    /\ blk_next = 1
    /\ stack = <<>>
    /\ statements = <<>>
    /\ blk_status = "idle"
    /\ blk_error = NoError

DescIdle ==
    /\ desc_iter = [chars |-> <<>>, pos |-> 0]
    /\ desc_params = <<>>
    /\ desc_return = NoType
    /\ desc_status = "idle"
    /\ desc_error = NoError

Mutf8Idle ==
    /\ mutf8_bytes = <<>>
    /\ mutf8_iterator = 0
    /\ mutf8_s = <<>>
    /\ mutf8_status = "idle"
    /\ mutf8_error = NoError

CfIdle ==
    /\ cf_build = [target_endian |-> "little", overflow_checks |-> FALSE]
    /\ cf_data = [buf |-> <<>>, position |-> 0]
    /\ cf_pool = <<>>
    /\ cf_class = <<>>
    /\ cf_status = "idle"
    /\ cf_error = NoError

ResIdle ==
    /\ res_constant_pool = <<>>
    /\ res_index = 0
    /\ res_call = ""
    /\ res_result = NoError

CpiIdle ==
    /\ cpi_overflow_checks = FALSE
    /\ cpi_constant_pool_count = 0
    /\ cpi_i = 0
    /\ cpi_keys = <<>>
    /\ cpi_watched = <<>>
    /\ cpi_status = "idle"

FpIdle ==
    /\ fp_blocks = <<>>
    /\ fp_node = 0
    /\ fp_paths = <<>>
    /\ fp_status = "idle"

RunIdle ==
    /\ run_inputs = <<>>
    /\ run_val = 0
    /\ run_entry = 0
    /\ run_method = 0
    /\ run_stdout = <<>>
    /\ run_stderr = <<>>
    /\ run_status = "idle"
    /\ run_exit = -1

InitDisasm ==
    /\ \E code \in CodeArrays : codes = [buf |-> code, position |-> 0]
    /\ instructions = <<>>
    /\ dis_status = "loop"
    /\ dis_error = NoError
    /\ DescIdle
    /\ CfgIdle
    /\ BlkIdle
    /\ Mutf8Idle
    /\ CfIdle
    /\ ResIdle
    /\ CpiIdle
    /\ FpIdle
    /\ RunIdle

NextDisasm == DisassembleStep

SpecDisasm == InitDisasm /\ [][NextDisasm]_vars

InitDescriptor ==
    /\ \E d \in Descriptors : desc_iter = [chars |-> d, pos |-> 0]
    /\ desc_params = <<>>
    /\ desc_return = NoType
    /\ desc_status = "start"
    /\ desc_error = NoError
    /\ DisasmIdle
    /\ CfgIdle
    /\ BlkIdle
    /\ Mutf8Idle
    /\ CfIdle
    /\ ResIdle
    /\ CpiIdle
    /\ FpIdle
    /\ RunIdle

NextDescriptor == ParseMethodOpen \/ ParseMethodParam \/ ParseMethodReturn

SpecDescriptor == InitDescriptor /\ [][NextDescriptor]_vars

InitCfg ==
    /\ \E code \in CfgCodeArrays : codes = [buf |-> code, position |-> 0]
    /\ instructions = <<>>
    /\ dis_status = "loop"
    /\ dis_error = NoError
    /\ DescIdle
    /\ CfgIdle
    /\ BlkIdle
    /\ Mutf8Idle
    /\ CfIdle
    /\ ResIdle
    /\ CpiIdle
    /\ FpIdle
    /\ RunIdle

NextCfg == DisassembleStep \/ GenControlFlowGraph

SpecCfg == InitCfg /\ [][NextCfg]_vars

InitBlock ==
    /\ block \in Blocks
    /\ constant_pool \in ConstantPools
    /\ blk_next = 1
    /\ stack = <<>>
    /\ statements = <<>>
    /\ blk_status = "loop"
    /\ blk_error = NoError
    /\ DisasmIdle
    /\ DescIdle
    /\ CfgIdle
    /\ Mutf8Idle
    /\ CfIdle
    /\ ResIdle
    /\ CpiIdle
    /\ FpIdle
    /\ RunIdle

NextBlock == DecompileBlockStep \/ DecompileBlockReturn

SpecBlock == InitBlock /\ [][NextBlock]_vars

InitMutf8 ==
    /\ mutf8_bytes \in Mutf8Inputs
    /\ mutf8_iterator = 0
    /\ mutf8_s = <<>>
    /\ mutf8_status = "loop"
    /\ mutf8_error = NoError
    /\ DisasmIdle
    /\ DescIdle
    /\ CfgIdle
    /\ BlkIdle
    /\ CfIdle
    /\ ResIdle
    /\ CpiIdle
    /\ FpIdle
    /\ RunIdle

NextMutf8 == ToStringUnit \/ ToStringReturn

SpecMutf8 == InitMutf8 /\ [][NextMutf8]_vars

InitClassFile ==
    /\ cf_build \in Builds
    /\ \E input \in ClassFileInputs : cf_data = [buf |-> input, position |-> 0]
    /\ cf_pool = UnreadPool
    /\ cf_class = UnreadClass
    /\ cf_status = "magic"
    /\ cf_error = NoError
    /\ DisasmIdle
    /\ DescIdle
    /\ CfgIdle
    /\ BlkIdle
    /\ Mutf8Idle
    /\ ResIdle
    /\ CpiIdle
    /\ FpIdle
    /\ RunIdle

NextClassFile ==
    \/ ReadMagic
    \/ ReadVersion
    \/ ReadConstantPoolCount
    \/ ReadConstantPoolEntry
    \/ ReadConstantPoolReturn
    \/ ReadClassInfo
    \/ ReadInterfaces
    \/ ReadFields
    \/ ReadMethods
    \/ ReadAttributes
    \/ ReadEnd

SpecClassFile == InitClassFile /\ [][NextClassFile]_vars

InitResolve ==
    /\ res_constant_pool \in ResolvePools
    /\ res_index \in ResolveIndices
    /\ res_call = ""
    /\ res_result = NoError
    /\ DisasmIdle
    /\ DescIdle
    /\ CfgIdle
    /\ BlkIdle
    /\ Mutf8Idle
    /\ CfIdle
    /\ CpiIdle
    /\ FpIdle
    /\ RunIdle

NextResolve ==
    \/ GetUtf8Entry
    \/ GetClassEntry
    \/ GetNameTypeEntry
    \/ GetFieldEntry
    \/ GetMethodOrInterfaceEntry

SpecResolve == InitResolve /\ [][NextResolve]_vars

InitPoolIndex ==
    /\ cpi_overflow_checks \in BOOLEAN
    /\ cpi_constant_pool_count \in PoolCounts
    /\ cpi_i = 1
    /\ cpi_keys = NoKeys
    /\ cpi_watched \in {[key |-> k, wide |-> FALSE, next |-> FALSE] : k \in WatchedKeys}
    /\ cpi_status = "loop"
    /\ DisasmIdle
    /\ DescIdle
    /\ CfgIdle
    /\ BlkIdle
    /\ Mutf8Idle
    /\ CfIdle
    /\ ResIdle
    /\ FpIdle
    /\ RunIdle

NextPoolIndex == PoolEntryRead \/ PoolEntryFails \/ PoolReturned

SpecPoolIndex == InitPoolIndex /\ [][NextPoolIndex]_vars

InitFindPaths ==
    /\ fp_blocks \in BlockMaps
    /\ fp_node \in DOMAIN fp_blocks
    /\ fp_paths = <<>>
    /\ fp_status = "call"
    /\ DisasmIdle
    /\ DescIdle
    /\ CfgIdle
    /\ BlkIdle
    /\ Mutf8Idle
    /\ CfIdle
    /\ ResIdle
    /\ CpiIdle
    /\ RunIdle

NextFindPaths == FindPaths

SpecFindPaths == InitFindPaths /\ [][NextFindPaths]_vars

InitRun ==
    /\ run_inputs \in CommandLines
    /\ run_val = 1
    /\ run_entry = 0
    /\ run_method = 0
    /\ run_stdout = <<>>
    /\ run_stderr = <<>>
    /\ run_status = "run"
    /\ run_exit = -1
    /\ DisasmIdle
    /\ DescIdle
    /\ CfgIdle
    /\ BlkIdle
    /\ Mutf8Idle
    /\ CfIdle
    /\ ResIdle
    /\ CpiIdle
    /\ FpIdle

NextRun == RunInput \/ RunArchiveEntry \/ DecompileMethod \/ RunReturn

SpecRun == InitRun /\ [][NextRun]_vars

=============================================================================
